---------------------------- MODULE Spec2Model ----------------------------
(***************************************************************************)
(* rarlist: header indexing of multi-part RAR archives.                    *)
(*                                                                         *)
(* The module has two layers.                                              *)
(*  - The parsers (detectSignature, parseRar3, parseRar5, scanLegacy,      *)
(*    indexSingle) are operators over the bytes of a volume.  A volume is  *)
(*    a sequence of bytes; offsets are 0-based as in the Go code, so the   *)
(*    byte at offset o of d is d[o+1].                                     *)
(*  - The orchestrators (IndexVolumes, IndexVolumesParallel, ListFilesFS)  *)
(*    are state machines whose steps are the statements of the Go code     *)
(*    between two synchronisation points.                                  *)
(*                                                                         *)
(* Integer width: every size in the volumes the model reads is below 2^31, *)
(* where Go's uint16/uint32/int64 conversions are exact.                   *)
(***************************************************************************)
EXTENDS Integers, Sequences, FiniteSets, TLC

\* ------------------------------------------------------------------ bytes

Min(a, b) == IF a < b THEN a ELSE b

\* x & m # 0 for a one-bit mask m (a power of two)
Bit(x, m) == (x \div m) % 2 = 1

\* d[a:b] of Go (0-based, b exclusive)
Slice(d, a, b) == SubSeq(d, a + 1, b)

\* d[o] of Go
At(d, o) == d[o + 1]

\* binary.LittleEndian.Uint16(d[o:o+2])
LE16(d, o) == At(d, o) + 256 * At(d, o + 1)

\* binary.LittleEndian.Uint32(d[o:o+4])
LE32(d, o) == At(d, o) + 256 * At(d, o + 1) + 65536 * At(d, o + 2) + 16777216 * At(d, o + 3)

\* bytes left to read at reader offset rp (rp may lie past the end after a Seek)
Avail(d, rp) == IF rp >= Len(d) THEN 0 ELSE Len(d) - rp

\* ----------------------------------------------------------------- errors
\* An error value: kind is the sentinel errors.Is finds in the chain (or
\* "other"), site is the statement that created the error, path is the volume
\* path an orchestrator prefixed it with (0 when it has none).

Err(kind, site) == [kind |-> kind, site |-> site, path |-> 0]

\* fmt.Errorf("%s: %w", path, err)
Wrap(path, e) == [e EXCEPT !.path = path]

NoErr == Err("nil", "nil")

IsErr(e) == e.kind # "nil"

\* errors.Is(err, ErrPasswordProtected)
IsPasswordProtected(e) == e.kind = "ErrPasswordProtected"

\* ------------------------------------------------------------------ types

VersionUnknown == "UNKNOWN"
VersionRar3 == "RAR3"
VersionRar5 == "RAR5"

\* Rar!\x1A\x07\x00
rarrSigV3 == <<82, 97, 114, 33, 26, 7, 0>>
\* Rar!\x1A\x07\x01\x00
rarrSigV5 == <<82, 97, 114, 33, 26, 7, 1, 0>>

rar3BlockTypeFile == 116
rar3BlockTypeMain == 115

NoPath == 0

\* a nil *VolumeIndex
NilVI == [Path |-> NoPath, Version |-> "nil", TotalHeaderBytes |-> 0, FileBlocks |-> <<>>]

\* &VolumeIndex{Path: path, Version: version}
NewVolumeIndex(path, version) ==
    [Path |-> path, Version |-> version, TotalHeaderBytes |-> 0, FileBlocks |-> <<>>]


\* FileBlock{...} with Go's zero value for the fields a parser leaves unset
FileBlock(name, headerPos, headerSize, packed, volData, continued, unpacked, stored, encrypted) ==
    [Name |-> name, HeaderPos |-> headerPos, HeaderSize |-> headerSize,
     DataPos |-> headerPos + headerSize, PackedSize |-> packed,
     VolumeDataSize |-> volData, Continued |-> continued,
     UnpackedSize |-> unpacked, Stored |-> stored, Encrypted |-> encrypted]

\* ------------------------------------------------------- signature detector

\* string(buf[i:i+len(sig)]) == string(sig), with the bounds test before it
MatchAt(buf, i, sig) == i + Len(sig) <= Len(buf) /\ Slice(buf, i, i + Len(sig)) = sig

PeekLen == 1024

\* offsets the search loop of detectSignature visits: i+7 < len(buf)
SigOffsets(buf) == {i \in 0..(Len(buf) - 1) : i + 7 < Len(buf)}

\* detectSignature on buf = the first PeekLen bytes of the volume
detectSignature(data) ==
    LET buf == SubSeq(data, 1, Min(Len(data), PeekLen))
        hits == {i \in SigOffsets(buf) : MatchAt(buf, i, rarrSigV5) \/ MatchAt(buf, i, rarrSigV3)}
    IN  IF hits = {}
        THEN [version |-> VersionUnknown, sigOffset |-> 0, err |-> Err("other", "detectSignature")]
        ELSE LET i == CHOOSE h \in hits : \A g \in hits : h <= g
             IN  [version |-> IF MatchAt(buf, i, rarrSigV5) THEN VersionRar5 ELSE VersionRar3,
                  sigOffset |-> i, err |-> NoErr]

\* --------------------------------------------------------- Format-A (RAR3)

\* readRar3BlockHeader: io.ReadFull of 7 bytes, then of 4 more when flag 0x8000 is set.
\* io.ReadFull gives io.EOF when nothing could be read, ErrUnexpectedEOF on a short read.
readRar3BlockHeader(d, rp) ==
    IF Avail(d, rp) = 0 THEN [err |-> Err("EOF", "readRar3BlockHeader"), rp |-> rp, Type |-> 0, Flags |-> 0, Size |-> 0, AddSize |-> 0]
    ELSE IF Avail(d, rp) < 7 THEN [err |-> Err("ErrUnexpectedEOF", "readRar3BlockHeader"), rp |-> Len(d), Type |-> 0, Flags |-> 0, Size |-> 0, AddSize |-> 0]
    ELSE LET type == At(d, rp + 2)
             flags == LE16(d, rp + 3)
             size == LE16(d, rp + 5)
         IN  IF ~Bit(flags, 32768)
             THEN [err |-> NoErr, rp |-> rp + 7, Type |-> type, Flags |-> flags, Size |-> size, AddSize |-> 0]
             ELSE IF Avail(d, rp + 7) = 0
             THEN [err |-> Err("EOF", "readRar3BlockHeader"), rp |-> rp + 7, Type |-> type, Flags |-> flags, Size |-> size, AddSize |-> 0]
             ELSE IF Avail(d, rp + 7) < 4
             THEN [err |-> Err("ErrUnexpectedEOF", "readRar3BlockHeader"), rp |-> Len(d), Type |-> type, Flags |-> flags, Size |-> size, AddSize |-> 0]
             ELSE [err |-> NoErr, rp |-> rp + 11, Type |-> type, Flags |-> flags, Size |-> size, AddSize |-> LE32(d, rp + 7)]

\* the bytes of b that are printable ASCII (32..126), in order
RECURSIVE CleanPrintable(_)
CleanPrintable(b) ==
    IF b = <<>> THEN <<>>
    ELSE (IF Head(b) >= 32 /\ Head(b) <= 126 THEN <<Head(b)>> ELSE <<>>) \o CleanPrintable(Tail(b))

\* the file name parseRar3FileHeader takes out of the name field
Rar3Name(nameBytes) ==
    IF Len(nameBytes) = 0 THEN <<>>
    ELSE LET hasExtraBytes == /\ Len(nameBytes) > 4
                              /\ At(nameBytes, 0) < 32
                              /\ \A i \in 1..3 : At(nameBytes, i) = 0
             startIdx == IF hasExtraBytes THEN 4 ELSE 0
             nulls == {i \in startIdx..(Len(nameBytes) - 1) : At(nameBytes, i) = 0}
             nullPos == IF nulls = {} THEN -1 ELSE CHOOSE i \in nulls : \A j \in nulls : i <= j
         IN  IF nullPos > startIdx THEN Slice(nameBytes, startIdx, nullPos)
             ELSE IF startIdx = 0 THEN CleanPrintable(nameBytes)
             ELSE Slice(nameBytes, startIdx, Len(nameBytes))

\* nameSize of parseRar3FileHeader: fixed[19:21], or derived from the block size when that is 0
Rar3NameSize(d, fixedAt, h) ==
    LET ns == LE16(d, fixedAt + 19)
        headerSize == IF Bit(h.Flags, 32768) THEN 11 ELSE 7
        remainingBytes == h.Size - headerSize - 25
    IN  IF ns # 0 THEN ns
        ELSE IF remainingBytes > 0 /\ remainingBytes < 512 THEN remainingBytes
        ELSE 0

\* stored flag of parseRar3FileHeader
Rar3Stored(packSize, unpSize, method) ==
    \/ packSize = unpSize
    \/ method = 48
    \/ method % 16 = 0
    \/ (method % 16 = 1 /\ method = 129)

\* VolumeDataSize of parseRar3FileHeader
Rar3VolumeDataSize(fileSize, dataPos, packSize) ==
    LET volumeDataSize == fileSize - dataPos - 20
    IN  IF volumeDataSize <= 0 \/ volumeDataSize > packSize * 100 \/ packSize < 1000
        THEN packSize
        ELSE volumeDataSize

\* parseRar3FileHeader with the reader at rp, just after the 7 or 11 header bytes
parseRar3FileHeader(d, rp, hdrStart, h, fileSize) ==
    LET bad(k) == [err |-> Err(k, "parseRar3FileHeader"), fb |-> <<>>, rp |-> Len(d)]
    IN  IF Avail(d, rp) = 0 THEN bad("EOF")
        ELSE IF Avail(d, rp) < 25 THEN bad("ErrUnexpectedEOF")
        ELSE
        LET packSize == LE32(d, rp)
            unpSize == LE32(d, rp + 4)
            method == At(d, rp + 18)
            nameSize == Rar3NameSize(d, rp, h)
            nameAt == rp + 25
        IN  IF nameSize > 0 /\ Avail(d, nameAt) = 0 THEN bad("EOF")
            ELSE IF Avail(d, nameAt) < nameSize THEN bad("ErrUnexpectedEOF")
            ELSE
            LET nameBytes == Slice(d, nameAt, nameAt + nameSize)
                salt == Bit(h.Flags, 1024)
                headerSize == 7 + (IF Bit(h.Flags, 32768) THEN 4 ELSE 0) + 25 + nameSize
                                + (IF salt THEN 8 ELSE 0)
                dataPos == hdrStart + headerSize
            IN  IF salt /\ Avail(d, nameAt + nameSize) < 8 THEN bad("EOF")
                ELSE [err |-> NoErr,
                      rp |-> nameAt + nameSize + (IF salt THEN 8 ELSE 0),
                      fb |-> <<FileBlock(Rar3Name(nameBytes), hdrStart, headerSize, packSize,
                                         Rar3VolumeDataSize(fileSize, dataPos, packSize),
                                         unpSize > packSize, unpSize,
                                         Rar3Stored(packSize, unpSize, method),
                                         Bit(h.Flags, 4))>>]

\* the main-header flag test with the 0x0200 test left out
Rar3HeadersEncryptedOnly80(h) == h.Type = rar3BlockTypeMain /\ Bit(h.Flags, 128)

\* main-header flag test of parseRar3: h.Flags&0x0080 != 0 || h.Flags&0x0200 != 0
Rar3HeadersEncrypted(h) == h.Type = rar3BlockTypeMain /\ (Bit(h.Flags, 128) \/ Bit(h.Flags, 512))

\* skipping the body of a non-file block: with a seeker the buffered bytes are
\* drained and the rest is skipped by Seek (which succeeds past the end of the
\* file); without one br.Discard fails with io.EOF when the bytes are not there.
Rar3Skip(d, rp, toSkip, seekable) ==
    IF toSkip <= 0 THEN [err |-> NoErr, rp |-> rp]
    ELSE IF seekable THEN [err |-> NoErr, rp |-> rp + toSkip]
    ELSE IF Avail(d, rp) >= toSkip THEN [err |-> NoErr, rp |-> rp + toSkip]
    ELSE [err |-> Err("EOF", "parseRar3:skip"), rp |-> Len(d)]

\* result of parseRar3; hdrs lists the block headers read (type and flags), in order
Rar3Result(err, fbs, hdrs) ==
    [err |-> err, FileBlocks |-> fbs,
     TotalHeaderBytes |-> IF fbs = <<>> THEN 0 ELSE fbs[1].DataPos,
     hdrs |-> hdrs]

\* one turn of the block loop of parseRar3, for the block header h just read
\* at offset pos
RECURSIVE Rar3Loop(_, _, _, _, _, _)
Rar3Turn(d, pos, seekable, fileSize, hdrs, h) ==
    LET seen == Append(hdrs, [Type |-> h.Type, Flags |-> h.Flags])
        totalSize == h.Size + h.AddSize
        toSkip == h.Size + h.AddSize - 7 - (IF Bit(h.Flags, 32768) THEN 4 ELSE 0)
        f == parseRar3FileHeader(d, h.rp, pos, h, fileSize)
        sk == Rar3Skip(d, h.rp, toSkip, seekable)
    IN  IF h.err.kind = "EOF" THEN Rar3Result(NoErr, <<>>, hdrs)
        ELSE IF IsErr(h.err) THEN Rar3Result(h.err, <<>>, hdrs)
        ELSE IF Rar3HeadersEncrypted(h)
        THEN Rar3Result(Err("ErrPasswordProtected", "parseRar3"), <<>>, seen)
        ELSE IF h.Type = rar3BlockTypeFile THEN Rar3Result(f.err, f.fb, seen)
        ELSE IF IsErr(sk.err) THEN Rar3Result(sk.err, <<>>, seen)
        ELSE Rar3Loop(d, sk.rp, pos + totalSize, seekable, fileSize, seen)

\* the block loop of parseRar3
Rar3Loop(d, rp, pos, seekable, fileSize, hdrs) ==
    Rar3Turn(d, pos, seekable, fileSize, hdrs, readRar3BlockHeader(d, rp))

\* parseRar3 with the reader at rp: the signature is discarded, one pad byte
\* is skipped when the third byte is no block type and the first is zero
parseRar3(d, rp, seekable, baseOffset, fileSize) ==
    IF Avail(d, rp) < 7 THEN Rar3Result(Err("EOF", "parseRar3:signature"), <<>>, <<>>)
    ELSE LET r1 == rp + 7
             pad == /\ Avail(d, r1) >= 3
                    /\ At(d, r1 + 2) # rar3BlockTypeMain
                    /\ At(d, r1 + 2) # rar3BlockTypeFile
                    /\ At(d, r1) = 0
             skip == IF pad THEN 1 ELSE 0
         IN  Rar3Loop(d, r1 + skip, baseOffset + 7 + skip, seekable, fileSize, <<>>)

\* ------------------------------------------------------------ varint codec

\* uint64(c&0x7F) << (7*i)
VarintTerm(c, i) == IF c % 128 = 0 THEN 0 ELSE (c % 128) * (2 ^ (7 * i))

\* the decoding loop shared by both decoders: bytes d[base+i], i < 10, below end
RECURSIVE VarintScan(_, _, _, _, _)
VarintScan(d, base, end, i, val) ==
    IF base + i >= end \/ i >= 10 THEN [done |-> FALSE, val |-> val, n |-> i]
    ELSE LET c == At(d, base + i)
             v == val + VarintTerm(c, i)
         IN  IF c < 128 THEN [done |-> TRUE, val |-> v, n |-> i + 1]
             ELSE VarintScan(d, base, end, i + 1, v)

\* parse.ReadVarintFromSlice(d[base:end])
ReadVarintFromSlice(d, base, end) ==
    LET r == VarintScan(d, base, end, 0, 0)
    IN  IF r.done THEN [val |-> r.val, n |-> r.n, err |-> NoErr]
        ELSE IF r.n = 0 THEN [val |-> 0, n |-> 0, err |-> Err("ErrUnexpectedEOF", "ReadVarintFromSlice")]
        ELSE [val |-> 0, n |-> r.n, err |-> Err("other", "ReadVarintFromSlice:too long or truncated")]

\* parse.ReadVarint on the reader at rp: a failed ReadByte returns its error (io.EOF)
ReadVarint(d, rp) ==
    LET r == VarintScan(d, rp, Len(d), 0, 0)
    IN  IF r.done THEN [val |-> r.val, n |-> r.n, err |-> NoErr]
        ELSE IF r.n = 10 THEN [val |-> r.val, n |-> r.n, err |-> Err("other", "ReadVarint:too long")]
        ELSE [val |-> r.val, n |-> r.n, err |-> Err("EOF", "ReadVarint")]

\* --------------------------------------------------------- Format-B (RAR5)

\* a field that is absent: value 0, no byte consumed
NoField == [val |-> 0, n |-> 0, err |-> NoErr]

MaxHeadSize == 2097152

\* a failed read of the common fields
Rar5Bad(kind, what) ==
    [err |-> Err(kind, what), blockType |-> 0, dataSize |-> 0, cur |-> 0, bse |-> 0]

\* lines 91-98: the extra area lies at the end of the header
Rar5ExtraArea(he, blockType, ex, ds, c3) ==
    IF IsErr(ds.err) THEN Rar5Bad(ds.err.kind, "parseRar5:dataSize")
    ELSE IF ex.val > 0 /\ ex.val > he - (c3 + ds.n)
    THEN Rar5Bad("other", "parseRar5:extraAreaSize overflow")
    ELSE [err |-> NoErr, blockType |-> blockType, dataSize |-> ds.val, cur |-> c3 + ds.n,
          bse |-> he - ex.val]

\* lines 84-90: dataSize, present with flag 0x0002
Rar5DataSize(d, he, blockType, flags, ex, c2) ==
    IF IsErr(ex.err) THEN Rar5Bad(ex.err.kind, "parseRar5:extraAreaSize")
    ELSE Rar5ExtraArea(he, blockType, ex,
                       IF Bit(flags, 2) THEN ReadVarintFromSlice(d, c2 + ex.n, he) ELSE NoField,
                       c2 + ex.n)

\* lines 76-83: extraAreaSize, present with flag 0x0001
Rar5ExtraAreaSize(d, he, blockType, fl, c1) ==
    IF IsErr(fl.err) THEN Rar5Bad(fl.err.kind, "parseRar5:flags")
    ELSE Rar5DataSize(d, he, blockType, fl.val,
                      IF Bit(fl.val, 1) THEN ReadVarintFromSlice(d, c1 + fl.n, he) ELSE NoField,
                      c1 + fl.n)

\* lines 72-75: flags
Rar5Flags(d, he, bt, hb) ==
    IF IsErr(bt.err) THEN Rar5Bad(bt.err.kind, "parseRar5:blockType")
    ELSE Rar5ExtraAreaSize(d, he, bt.val, ReadVarintFromSlice(d, hb + bt.n, he), hb + bt.n)

\* lines 59-98: the common fields at the start of the header content d[hb:he]:
\* blockType, flags, [extraAreaSize], [dataSize]; cur is where the fields of
\* the block start, bse (blockSpecificEnd) where they end
Rar5Common(d, hb, he) == Rar5Flags(d, he, ReadVarintFromSlice(d, hb, he), hb)

\* a failed read of a file header
Rar5FileBad(kind, what) == [err |-> Err(kind, what), fb |-> <<>>]

\* lines 152-158: the name; blk holds hdrStart, headerSize and dataSize of the block
Rar5FileName(d, bse, blk, unpSize, compInfo, nl, cur) ==
    IF IsErr(nl.err) THEN Rar5FileBad(nl.err.kind, "parseRar5:nameLen")
    ELSE IF nl.val = 0 \/ nl.val > bse - (cur + nl.n) THEN Rar5FileBad("other", "parseRar5:bad nameLen")
    ELSE [err |-> NoErr,
          fb |-> <<FileBlock(Slice(d, cur + nl.n, cur + nl.n + nl.val), blk.hdrStart,
                             blk.headerSize, blk.dataSize, 0, FALSE, unpSize,
                             compInfo = 0, FALSE)>>]

\* lines 148-151: nameLen
Rar5FileNameLen(d, bse, blk, unpSize, compInfo, ho, cur) ==
    IF IsErr(ho.err) THEN Rar5FileBad(ho.err.kind, "parseRar5:hostOS")
    ELSE Rar5FileName(d, bse, blk, unpSize, compInfo,
                      ReadVarintFromSlice(d, cur + ho.n, bse), cur + ho.n)

\* lines 144-147: hostOS
Rar5FileHostOS(d, bse, blk, unpSize, ci, cur) ==
    IF IsErr(ci.err) THEN Rar5FileBad(ci.err.kind, "parseRar5:compInfo")
    ELSE Rar5FileNameLen(d, bse, blk, unpSize, ci.val,
                         ReadVarintFromSlice(d, cur + ci.n, bse), cur + ci.n)

\* lines 128-143: mtime and CRC32 (four bytes each, when flagged), then compInfo
Rar5FileTimes(d, bse, blk, fileFlags, unpSize, at, cur) ==
    LET b3 == cur + at.n
        b4 == cur + at.n + (IF Bit(fileFlags, 2) THEN 4 ELSE 0)
        b5 == cur + at.n + (IF Bit(fileFlags, 2) THEN 4 ELSE 0) + (IF Bit(fileFlags, 4) THEN 4 ELSE 0)
    IN  IF IsErr(at.err) THEN Rar5FileBad(at.err.kind, "parseRar5:fileAttr")
        ELSE IF Bit(fileFlags, 2) /\ bse - b3 < 4 THEN Rar5FileBad("other", "parseRar5:mtime truncated")
        ELSE IF Bit(fileFlags, 4) /\ bse - b4 < 4 THEN Rar5FileBad("other", "parseRar5:crc32 truncated")
        ELSE Rar5FileHostOS(d, bse, blk, unpSize, ReadVarintFromSlice(d, b5, bse), b5)

\* lines 124-127: attributes
Rar5FileAttr(d, bse, blk, fileFlags, un, cur) ==
    IF IsErr(un.err) THEN Rar5FileBad(un.err.kind, "parseRar5:unpackedSize")
    ELSE Rar5FileTimes(d, bse, blk, fileFlags, un.val,
                       ReadVarintFromSlice(d, cur + un.n, bse), cur + un.n)

\* lines 120-123: unpackedSize
Rar5FileUnpSize(d, bse, blk, ff, cur) ==
    IF IsErr(ff.err) THEN Rar5FileBad(ff.err.kind, "parseRar5:fileFlags")
    ELSE Rar5FileAttr(d, bse, blk, ff.val, ReadVarintFromSlice(d, cur + ff.n, bse), cur + ff.n)

\* lines 102-166: the file-specific fields in bs = d[cur:bse]
Rar5File(d, cur, bse, blk) ==
    IF bse < cur THEN Rar5FileBad("other", "parseRar5:blockSpecificEnd<cur")
    ELSE Rar5FileUnpSize(d, bse, blk, ReadVarintFromSlice(d, cur, bse), cur)

\* skipping a data area of dataSize bytes: with a seeker the buffered bytes are
\* drained and the rest is skipped by Seek (which succeeds past the end of the
\* file); without one io.CopyN fails with io.EOF when the bytes are not there.
Rar5Skip(d, rp, dataSize, seekable) ==
    IF dataSize <= 0 THEN [err |-> NoErr, rp |-> rp]
    ELSE IF seekable THEN [err |-> NoErr, rp |-> rp + dataSize]
    ELSE IF Avail(d, rp) >= dataSize THEN [err |-> NoErr, rp |-> rp + dataSize]
    ELSE [err |-> Err("EOF", "parseRar5:discard data"), rp |-> Len(d)]

\* TotalHeaderBytes overwritten by every file block
Rar5ResultLastBlock(err, fbs, types) ==
    [err |-> err, FileBlocks |-> fbs,
     TotalHeaderBytes |-> IF fbs = <<>> THEN 0 ELSE fbs[Len(fbs)].DataPos,
     types |-> types]

\* result of parseRar5; types lists the block types read, in order
Rar5Result(err, fbs, types) ==
    [err |-> err, FileBlocks |-> fbs,
     TotalHeaderBytes |-> IF fbs = <<>> THEN 0 ELSE fbs[1].DataPos,
     types |-> types]

RECURSIVE Rar5Loop(_, _, _, _, _, _, _)

\* lines 167-201: end of archive, or skip the data area and go on
Rar5Next(d, he, pos, seekable, fileSize, fbs, seen, c, f) ==
    LET sk == Rar5Skip(d, he, c.dataSize, seekable)
    IN  IF IsErr(f.err) THEN Rar5Result(f.err, fbs, seen)
        ELSE IF c.blockType = 5 THEN Rar5Result(NoErr, fbs \o f.fb, seen)
        ELSE IF IsErr(sk.err) THEN Rar5Result(sk.err, fbs \o f.fb, seen)
        ELSE Rar5Loop(d, sk.rp, pos + c.dataSize, seekable, fileSize, fbs \o f.fb, seen)

\* lines 59-166: the header content d[hb:he] of the block at hdrStart, with
\* common fields c; pos is the offset after the header
Rar5Header(d, he, hdrStart, pos, seekable, fileSize, fbs, types, c) ==
    IF IsErr(c.err) THEN Rar5Result(c.err, fbs, types)
    ELSE Rar5Next(d, he, pos, seekable, fileSize, fbs, Append(types, c.blockType), c,
                  IF c.blockType = 2
                  THEN Rar5File(d, c.cur, c.bse,
                                [hdrStart |-> hdrStart, headerSize |-> pos - hdrStart,
                                 dataSize |-> c.dataSize])
                  ELSE [err |-> NoErr, fb |-> <<>>])

\* lines 38-58: headSize hs has been read at offset rp, for the block at hdrStart
Rar5HeadSize(d, rp, hdrStart, seekable, fileSize, fbs, types, hs) ==
    LET hb == rp + hs.n
        pos2 == hdrStart + 4 + hs.n
        headSize == hs.val
    IN  IF IsErr(hs.err) THEN Rar5Result(Err(hs.err.kind, "parseRar5:read headSize"), fbs, types)
        ELSE IF headSize = 0 THEN Rar5Result(NoErr, fbs, types)
        ELSE IF headSize > MaxHeadSize THEN Rar5Result(Err("other", "parseRar5:suspicious headSize"), fbs, types)
        ELSE IF fileSize > 0 /\ pos2 + headSize > fileSize THEN Rar5Result(NoErr, fbs, types)
        ELSE IF Avail(d, hb) = 0 THEN Rar5Result(Err("EOF", "parseRar5:read headData"), fbs, types)
        ELSE IF Avail(d, hb) < headSize THEN Rar5Result(Err("ErrUnexpectedEOF", "parseRar5:read headData"), fbs, types)
        ELSE Rar5Header(d, hb + headSize, hdrStart, pos2 + headSize, seekable, fileSize, fbs, types,
                        Rar5Common(d, hb, hb + headSize))

\* lines 25-37: the block loop of parseRar5, with the reader at rp and pos the
\* offset the parser believes it is at
Rar5Loop(d, rp, pos, seekable, fileSize, fbs, types) ==
    IF fileSize > 0 /\ pos >= fileSize THEN Rar5Result(NoErr, fbs, types)
    ELSE IF Avail(d, rp) = 0 THEN Rar5Result(NoErr, fbs, types)
    ELSE IF Avail(d, rp) < 4 THEN Rar5Result(Err("ErrUnexpectedEOF", "parseRar5:read block crc"), fbs, types)
    ELSE Rar5HeadSize(d, rp + 4, pos, seekable, fileSize, fbs, types, ReadVarint(d, rp + 4))

\* parseRar5 with the reader at rp
parseRar5(d, rp, seekable, baseOffset, fileSize) ==
    IF Avail(d, rp) < 8 THEN Rar5Result(Err("EOF", "parseRar5:discard signature"), <<>>, <<>>)
    ELSE Rar5Loop(d, rp + 8, baseOffset + 8, seekable, fileSize, <<>>, <<>>)

\* ----------------------------------------------------------- legacy scanner

\* string(rune): the UTF-8 bytes of one rune below 0x10000
UTF8Rune(r) ==
    IF r < 128 THEN <<r>>
    ELSE IF r < 2048 THEN <<192 + (r \div 64), 128 + (r % 64)>>
    ELSE IF r >= 55296 /\ r <= 57343 THEN <<239, 191, 189>>
    ELSE <<224 + (r \div 4096), 128 + ((r \div 64) % 64), 128 + (r % 64)>>

\* string(result) for result []rune
RECURSIVE UTF8String(_)
UTF8String(runes) ==
    IF runes = <<>> THEN <<>> ELSE UTF8Rune(Head(runes)) \o UTF8String(Tail(runes))

\* the extended-flag loop of DecodeRar3Unicode: while bit (0x80 >> bitCount) of
\* flagBits is set and data is left, shift in the next data byte
RECURSIVE UniExt(_, _, _, _)
UniExt(u, flagBits, bitCount, dataPos) ==
    LET m == 128 \div (2 ^ bitCount)
    IN  IF m > 0 /\ Bit(flagBits, m) /\ dataPos < Len(u)
        THEN UniExt(u, (flagBits % m) * 256 + At(u, dataPos), bitCount + 1, dataPos + 1)
        ELSE [flagBits |-> flagBits, bitCount |-> bitCount, dataPos |-> dataPos]

\* (flagBits >> (i*2)) & 0x03; flagBits is below 2^15, so the value is 0 from i = 8 on
UniFlagValue(flagBits, i) == IF i >= 8 THEN 0 ELSE (flagBits \div (4 ^ i)) % 4

\* the per-flag loop of DecodeRar3Unicode; st = [asciiPos, dataPos, highByte, result]
RECURSIVE UniInner(_, _, _, _, _, _)
UniInner(a, u, flagBits, flagCount, i, st) ==
    IF i >= flagCount \/ (st.asciiPos >= Len(a) /\ st.dataPos >= Len(u)) THEN st
    ELSE LET fv == UniFlagValue(flagBits, i)
             more == st.dataPos < Len(u)
             next ==
                 IF fv = 0
                 THEN IF st.asciiPos < Len(a)
                      THEN [st EXCEPT !.result = Append(@, At(a, st.asciiPos)), !.asciiPos = @ + 1]
                      ELSE st
                 ELSE IF ~more THEN st
                 ELSE IF fv = 1
                 THEN [st EXCEPT !.result = Append(@, At(u, st.dataPos)), !.dataPos = @ + 1]
                 ELSE IF fv = 2
                 THEN [st EXCEPT !.result = Append(@, At(u, st.dataPos) + 256 * st.highByte),
                                 !.dataPos = @ + 1]
                 ELSE [st EXCEPT !.highByte = At(u, st.dataPos), !.dataPos = @ + 1]
         IN  UniInner(a, u, flagBits, flagCount, i + 1, next)

\* the outer loop of DecodeRar3Unicode: one flag byte (or extended flag group) at a time
RECURSIVE UniOuter(_, _, _)
UniOuter(a, u, st) ==
    IF st.dataPos >= Len(u) THEN st
    ELSE LET flags == At(u, st.dataPos)
             ext == IF flags >= 128 THEN UniExt(u, flags, 1, st.dataPos + 1)
                    ELSE [flagBits |-> flags, bitCount |-> 1, dataPos |-> st.dataPos + 1]
         IN  UniOuter(a, u, UniInner(a, u, ext.flagBits, ext.bitCount * 4, 0,
                                     [st EXCEPT !.dataPos = ext.dataPos]))

\* util.DecodeRar3Unicode(asciiPart, unicodeData), as the bytes of the string returned
DecodeRar3Unicode(asciiPart, unicodeData) ==
    IF Len(unicodeData) = 0 THEN asciiPart
    ELSE LET st == UniOuter(asciiPart, unicodeData,
                            [asciiPos |-> 0, dataPos |-> 0, highByte |-> 0, result |-> <<>>])
         IN  UTF8String(st.result \o Slice(asciiPart, st.asciiPos, Len(asciiPart)))

\* the name scanLegacy takes out of the name field
LegacyName(nameField, flags) ==
    LET zeros == {i \in 0..(Len(nameField) - 1) : At(nameField, i) = 0}
    IN  IF Bit(flags, 512) /\ zeros # {}
        THEN LET zero == CHOOSE i \in zeros : \A j \in zeros : i <= j
             IN  DecodeRar3Unicode(Slice(nameField, 0, zero),
                                   Slice(nameField, zero + 1, Len(nameField)))
        ELSE nameField

scanLimit == 65536

\* size of the buffer of bufio.NewReader: Peek never returns more than this
DefaultBufSize == 4096

\* br.Peek(scanLimit) with the reader at offset start
LegacyPeek(d, start) ==
    IF start >= Len(d) THEN <<>> ELSE Slice(d, start, Min(Len(d), start + Min(scanLimit, DefaultBufSize)))

\* the early check of scanLegacy: the first plausible main header (type 0x73,
\* size >= 7) within the first 512 offsets has an encryption flag set
LegacyHeadersEncrypted(pb) ==
    LET cands == {i \in 0..Min(Len(pb) - 7, 511) :
                    At(pb, i + 2) = rar3BlockTypeMain /\ LE16(pb, i + 5) >= 7}
    IN  /\ Len(pb) >= 7
        /\ cands # {}
        /\ LET i == CHOOSE c \in cands : \A e \in cands : c <= e
               flags == LE16(pb, i + 3)
           IN  Bit(flags, 128) \/ Bit(flags, 512)

\* int64(high)<<32 | int64(low)
HighLow(high, low) == high * 65536 * 65536 + low

LegacyResult(err, fbs) ==
    [err |-> err, FileBlocks |-> fbs,
     TotalHeaderBytes |-> IF fbs = <<>> THEN 0 ELSE fbs[1].DataPos]

\* the scan loop of scanLegacy over the peeked window pb
RECURSIVE LegacyScan(_, _, _)
LegacyScan(pb, searchStart, baseOffset) ==
    LET types == {i \in searchStart..(Len(pb) - 1) : At(pb, i) = rar3BlockTypeFile}
    IN  IF types = {} THEN LegacyResult(Err("other", "scanLegacy:no file header found"), <<>>)
        ELSE
        LET typePos == CHOOSE i \in types : \A j \in types : i <= j
            hdrStart == typePos - 2
        IN  IF hdrStart < 0 \/ hdrStart + 7 > Len(pb) THEN LegacyScan(pb, typePos + 1, baseOffset)
            ELSE
            LET flags == LE16(pb, hdrStart + 3)
                size == LE16(pb, hdrStart + 5)
                headEnd == hdrStart + size
                fixedStart == hdrStart + 7
                high == Bit(flags, 256)
                offset == fixedStart + 25 + (IF high THEN 8 ELSE 0)
            IN  IF size < 32 THEN LegacyScan(pb, typePos + 1, baseOffset)
                ELSE IF headEnd > Len(pb)
                THEN LegacyResult(Err("other", "scanLegacy:no file header found"), <<>>)
                ELSE IF fixedStart + 25 > headEnd THEN LegacyScan(pb, typePos + 1, baseOffset)
                ELSE IF high /\ fixedStart + 25 + 8 > headEnd THEN LegacyScan(pb, typePos + 1, baseOffset)
                ELSE
                LET nameSize == LE16(pb, fixedStart + 15)
                    highPack == IF high THEN LE32(pb, fixedStart + 25) ELSE 0
                    highUnp == IF high THEN LE32(pb, fixedStart + 29) ELSE 0
                IN  IF offset + nameSize > headEnd THEN LegacyScan(pb, typePos + 1, baseOffset)
                    ELSE LegacyResult(NoErr,
                            <<FileBlock(LegacyName(Slice(pb, offset, offset + nameSize), flags),
                                        baseOffset + 7 + hdrStart, size,
                                        HighLow(highPack, LE32(pb, fixedStart)),
                                        0, FALSE,
                                        HighLow(highUnp, LE32(pb, fixedStart + 4)),
                                        At(pb, fixedStart + 18) = 48,
                                        Bit(flags, 4))>>)

\* scanLegacy with the reader at offset start
scanLegacy(d, start, baseOffset) ==
    LET pb == LegacyPeek(d, start)
    IN  IF LegacyHeadersEncrypted(pb)
        THEN LegacyResult(Err("ErrPasswordProtected", "scanLegacy"), <<>>)
        ELSE LegacyScan(pb, 0, baseOffset)

\* parseRarLegacySeeker: Seek(baseOffset+7) on the handle, then scanLegacy
parseRarLegacySeeker(d, baseOffset) == scanLegacy(d, baseOffset + 7, baseOffset)

\* parseRarLegacy: the path is opened again; a handle that cannot seek is read
\* up to baseOffset+7 (io.CopyN fails with io.EOF on a shorter file)
parseRarLegacy(d, seekable, baseOffset) ==
    IF seekable THEN parseRarLegacySeeker(d, baseOffset)
    ELSE IF baseOffset + 7 > Len(d) THEN LegacyResult(Err("EOF", "parseRarLegacy"), <<>>)
    ELSE scanLegacy(d, baseOffset + 7, baseOffset)

\* ------------------------------------------------------------- indexSingle

\* A FileSystem is [files, seekable]: files maps each existing path to its
\* bytes, seekable says whether the File that Open returns implements io.Seeker.

\* offset of the underlying handle after br.Peek(1024) of detectSignature, for a
\* handle whose Read fills the buffer it is given (os.File, in-memory files):
\* the bufio.Reader has read one buffer, or the whole file when it is shorter
UnderlyingAfterPeek(d) == Min(Len(d), DefaultBufSize)

\* where parsing starts reading after lines 87-96: a seekable handle is moved to
\* sigOffset; otherwise br.Discard(sigOffset) only moves inside the buffer, and
\* br.Reset(f) then drops the buffer, so reading resumes where the handle stands
StartOffset(d, seekable, sigOffset) ==
    IF seekable THEN sigOffset ELSE UnderlyingAfterPeek(d)

\* the legacy attempt of indexSingle: on the open handle when it can seek,
\* else through parseRarLegacy, which opens the path again
LegacyAttempt(d, seekable, sigOffset) ==
    IF seekable THEN parseRarLegacySeeker(d, sigOffset) ELSE parseRarLegacy(d, FALSE, sigOffset)

\* errors.Is(err, ErrPasswordProtected) keeps indexSingle from the legacy attempt
NeedLegacy(strict) ==
    IF IsErr(strict.err) THEN ~IsPasswordProtected(strict.err)
    ELSE Len(strict.FileBlocks) = 0

\* vi after a parser has filled it
FilledVI(path, version, r) ==
    [Path |-> path, Version |-> version, TotalHeaderBytes |-> r.TotalHeaderBytes,
     FileBlocks |-> r.FileBlocks]

Returned(vi, err) == [vi |-> vi, err |-> err]

\* what indexSingle returns for a Format-A volume without a legacy attempt
Rar3Direct(path, strict) ==
    IF IsErr(strict.err) THEN Returned(NilVI, strict.err)
    ELSE Returned(FilledVI(path, VersionRar3, strict), NoErr)

\* the fallback returning the legacy scanner's error when both parsers fail
Rar3FallbackLegacyError(path, strict, legacy) ==
    IF ~IsErr(legacy.err) /\ Len(legacy.FileBlocks) > 0
    THEN Returned(FilledVI(path, VersionRar3, legacy), NoErr)
    ELSE Returned(NilVI, legacy.err)

\* what indexSingle returns for a Format-A volume after the legacy attempt
Rar3Fallback(path, strict, legacy) ==
    LET got == ~IsErr(legacy.err) /\ Len(legacy.FileBlocks) > 0
    IN  IF IsErr(strict.err)
        THEN IF got THEN Returned(FilledVI(path, VersionRar3, legacy), NoErr)
             ELSE Returned(NilVI, strict.err)
        ELSE IF IsErr(legacy.err) /\ Len(legacy.FileBlocks) = 0 THEN Returned(NilVI, legacy.err)
        ELSE Returned(FilledVI(path, VersionRar3, legacy), NoErr)

\* what indexSingle returns for a Format-B volume
Rar5Direct(path, r5) ==
    IF IsErr(r5.err) THEN Returned(NilVI, r5.err)
    ELSE Returned(FilledVI(path, VersionRar5, r5), NoErr)

\* lines 104-128: what indexSingle returns once the strict Format-A parser has run
Rar3Outcome(fs, path, d, sigOffset, strict) ==
    IF NeedLegacy(strict)
    THEN Rar3Fallback(path, strict, LegacyAttempt(d, fs.seekable, sigOffset))
    ELSE Rar3Direct(path, strict)

\* lines 98-140: the parser for the version found, with the reader at start
IndexVersion(fs, path, d, sig, start) ==
    IF sig.version = VersionRar3
    THEN Rar3Outcome(fs, path, d, sig.sigOffset,
                     parseRar3(d, start, fs.seekable, sig.sigOffset, Len(d)))
    ELSE IF sig.version = VersionRar5
    THEN Rar5Direct(path, parseRar5(d, start, fs.seekable, sig.sigOffset, Len(d)))
    ELSE Returned(NilVI, Err("other", "indexSingle:unsupported/unknown version"))

\* lines 83-97: the signature, then the reader is positioned
IndexDetected(fs, path, d, sig) ==
    IF IsErr(sig.err) THEN Returned(NilVI, sig.err)
    ELSE IndexVersion(fs, path, d, sig, StartOffset(d, fs.seekable, sig.sigOffset))

\* indexSingle: lines 74-142
indexSingle(fs, path) ==
    IF path \notin DOMAIN fs.files THEN Returned(NilVI, Err("other", "fs.Open"))
    ELSE IndexDetected(fs, path, fs.files[path], detectSignature(fs.files[path]))

\* ------------------------------------------------------------ the volumes
\* The volumes the model indexes, built the way the repository's tests build
\* theirs.  File names are ASCII bytes.

\* make([]byte, n)
Zeros(n) == [k \in 1..n |-> 0]

\* encodeVarint of the tests
RECURSIVE encodeVarint(_)
encodeVarint(x) ==
    IF x \div 128 # 0 THEN <<(x % 128) + 128>> \o encodeVarint(x \div 128) ELSE <<x % 128>>

\* a Format-A file header as the tests lay it out: CRC, type 0x74, flags, size,
\* then 25 fixed bytes (pack size at 0, unpacked size at 4, method at 18, name
\* size at 19) and the name; sizes and lengths are below 256
Rar3FileHeader(flags, method, name, packSize, unpSize, nameLen) ==
    <<0, 0, rar3BlockTypeFile, flags % 256, flags \div 256, 7 + 25 + Len(name), 0>>
        \o [k \in 1..25 |-> CASE k = 1 -> packSize
                              [] k = 5 -> unpSize
                              [] k = 19 -> method
                              [] k = 20 -> nameLen
                              [] OTHER -> 0]
        \o name

\* buildRar3FileHeader of the tests: no flags, stored
buildRar3FileHeader(name, packSize, unpSize) ==
    Rar3FileHeader(0, 48, name, packSize, unpSize, Len(name))

\* a Format-A block that is no file header: CRC, type, flags, size, body
Rar3Block(crc, type, flags, body) ==
    <<crc, 0, type, flags % 256, flags \div 256, (7 + Len(body)) % 256, (7 + Len(body)) \div 256>> \o body

\* a Format-B block: CRC, headSize, then type, flags, [dataSize], the fields
\* specific to the block, and the data area
Rar5Block(type, dataSize, fields, data) ==
    LET head == encodeVarint(type)
                  \o (IF dataSize > 0 THEN <<2>> \o encodeVarint(dataSize) ELSE <<0>>)
                  \o fields
    IN  Zeros(4) \o encodeVarint(Len(head)) \o head \o data

\* the fields of a Format-B file header: fileFlags 0, unpacked size, attributes,
\* compression info, host OS, name length, name
Rar5FileFields(unpSize, compInfo, name) ==
    <<0>> \o encodeVarint(unpSize) \o <<0, compInfo, 0>> \o encodeVarint(Len(name)) \o name

NameA == <<97, 51>>
NameB == <<98, 46, 116>>
NameC == <<102, 53>>

\* TestParseRar3: signature, pad byte, one stored file header
V3Good == rarrSigV3 \o <<0>> \o buildRar3FileHeader(NameA, 5, 5)
\* the same without the pad byte and with a 't' in the name
V3NoPad == rarrSigV3 \o buildRar3FileHeader(NameB, 4, 4)
\* TestListFiles_Compressed_RAR3_ReturnsError
V3Compressed == rarrSigV3 \o <<0>> \o Rar3FileHeader(0, 51, NameA, 5, 10, 2)
\* TestListFiles_Password_RAR3_ReturnsError
V3EncFile == rarrSigV3 \o <<0>> \o Rar3FileHeader(4, 48, NameA, 5, 5, 2)
\* a file block that is both encrypted and compressed
V3EncCompressed == rarrSigV3 \o <<0>> \o Rar3FileHeader(4, 51, NameA, 5, 10, 2)
\* TestRar3MainHeaderEncrypted_EarlyError
V3EncMain80 == rarrSigV3 \o Rar3Block(0, rar3BlockTypeMain, 128, <<>>)
\* main header with flag 0x0200, followed by a plain file header
V3EncMain200 == rarrSigV3 \o Rar3Block(0, rar3BlockTypeMain, 512, <<>>) \o buildRar3FileHeader(NameA, 5, 5)
\* a plain main header with a body, then a file header
V3MainThenFile == rarrSigV3 \o Rar3Block(0, rar3BlockTypeMain, 0, Zeros(6)) \o buildRar3FileHeader(NameA, 5, 5)
\* a plain main header, a second main header with flag 0x0080
V3LateEncMain == rarrSigV3 \o Rar3Block(0, rar3BlockTypeMain, 0, Zeros(6)) \o Rar3Block(0, rar3BlockTypeMain, 128, <<>>)
\* TestLegacyFallback: three filler bytes make the strict parser read a block
\* that runs past the end of the file; the legacy scanner finds the header
V3Legacy == rarrSigV3 \o <<0>> \o <<1, 2, 3>> \o buildRar3FileHeader(NameA, 4, 4)
\* a file header whose name is longer than the file: the strict parser fails,
\* the legacy scanner accepts the header
V3ShortName == rarrSigV3 \o Rar3FileHeader(0, 48, <<>>, 4, 4, 9)
\* TestErrorsAndEdgeCases p3: no header at all after the signature
V3LegacyFail == rarrSigV3 \o <<0, 1, 2, 3, 4>>
\* only a plain main header: no file block for either parser
V3MainOnly == rarrSigV3 \o Rar3Block(0, rar3BlockTypeMain, 0, <<>>)
\* a block of another type whose body looks like an encrypted main header to
\* the legacy scanner
V3HiddenMain == rarrSigV3 \o Rar3Block(1, 122, 0, <<0, 0, rar3BlockTypeMain, 128, 0, 7, 0>>)
\* a truncated block header after bytes that look like an encrypted main header
\* to the legacy scanner only
V3TruncHiddenMain == rarrSigV3 \o Rar3Block(1, 122, 0, <<0, 0, rar3BlockTypeMain, 128, 0, 7, 0>>) \o <<9, 9>>
\* a block with a body that is missing from the file, then nothing
V3TruncBody == rarrSigV3 \o <<1, 0, 122, 0, 0, 20, 0>> \o <<1, 1>>
\* TestSignatureOffsetSFX: junk before the signature
V3Sfx == <<85, 85, 85, 85>> \o V3Good
\* junk before the signature, as many bytes as leave the 7 signature bytes
\* at the end of the PeekLen window
V3SfxEdge == [k \in 1..(PeekLen - 7) |-> 85] \o V3Good
\* TestRar3DataOffsetCalculation: five bytes of data after the file header,
\* followed here by the header of a second file
V3TwoFiles == rarrSigV3 \o <<0>> \o buildRar3FileHeader(NameA, 5, 5) \o <<170, 187, 204, 221, 238>>
                        \o buildRar3FileHeader(NameB, 4, 4) \o <<1, 2, 3, 4>>
\* a main header, a block of another type that ends 7 bytes after the first
\* buffer of DefaultBufSize bytes, then a file header and its data
V3Far == rarrSigV3 \o Rar3Block(0, rar3BlockTypeMain, 0, Zeros(6))
                   \o Rar3Block(0, 122, 0, Zeros(DefaultBufSize - 20))
                   \o buildRar3FileHeader(NameA, 5, 5) \o <<170, 187, 204, 221, 238>>

\* TestParseRar5 (without a data size field)
V5Good == rarrSigV5 \o Rar5Block(2, 0, Rar5FileFields(5, 0, NameC), <<>>)
\* TestListFiles_Password_RAR5_ReturnsError: an archive-encryption header
V5Enc == rarrSigV5 \o Rar5Block(4, 0, <<>>, <<>>)
\* an archive-encryption header followed by a file header
V5EncThenFile == rarrSigV5 \o Rar5Block(4, 0, <<>>, <<>>) \o Rar5Block(2, 0, Rar5FileFields(5, 0, NameC), <<>>)
\* a compressed file
V5Compressed == rarrSigV5 \o Rar5Block(2, 0, Rar5FileFields(9, 3, NameC), <<>>)
\* TestRar5DataSkip: a file with three bytes of data, then a second file
V5TwoFiles == rarrSigV5 \o Rar5Block(2, 3, Rar5FileFields(3, 0, NameC), <<7, 7, 7>>)
                        \o Rar5Block(2, 0, Rar5FileFields(5, 0, NameA), <<>>)
\* a main header, a file, the end-of-archive block
V5MainFileEnd == rarrSigV5 \o Rar5Block(1, 0, <<0>>, <<>>) \o Rar5Block(2, 0, Rar5FileFields(5, 0, NameC), <<>>)
                           \o Rar5Block(5, 0, <<0>>, <<>>)
\* a service block whose data area is cut short by the end of the file,
\* followed by nothing
V5TruncData == rarrSigV5 \o Rar5Block(3, 9, <<>>, <<7, 7>>)
\* TestErrorsAndEdgeCases p2: headSize 3,000,000
V5BadHead == rarrSigV5 \o Zeros(4) \o <<192, 141, 183, 2>>
\* TestRar5BadNameLen: name length 0
V5BadName == rarrSigV5 \o Rar5Block(2, 0, <<0, 5, 0, 0, 0, 0>>, <<>>)
\* junk before the signature
V5Sfx == <<85, 85, 85>> \o V5Good
\* TestRar5TruncatedHeadData: headSize 50 with nothing after it
V5TruncHead == rarrSigV5 \o Zeros(4) \o <<50>>
\* a file with three bytes of data, then a block whose headSize 50 runs past
\* the end of the file
V5FileThenTrunc == rarrSigV5 \o Rar5Block(2, 3, Rar5FileFields(3, 0, NameC), <<7, 7, 7>>)
                             \o Zeros(4) \o <<50, 2>>
\* a file, then a block with headSize 0 and bytes after it
V5ZeroHead == rarrSigV5 \o Rar5Block(2, 0, Rar5FileFields(5, 0, NameC), <<>>)
                        \o Zeros(4) \o <<0, 9, 9>>
\* the blocks of V5FileThenTrunc after a service block whose data area ends
\* where the first buffer of DefaultBufSize bytes ends and a main header
V5FarTrunc == rarrSigV5 \o Rar5Block(3, DefaultBufSize - 17, <<>>, Zeros(DefaultBufSize - 17))
                        \o Rar5Block(1, 0, <<0>>, <<>>)
                        \o Rar5Block(2, 3, Rar5FileFields(3, 0, NameC), <<7, 7, 7>>)
                        \o Zeros(4) \o <<50, 2>>
\* a service block whose data area ends where the first buffer of DefaultBufSize
\* bytes ends, then a main header, a file with three bytes of data and a
\* second file (the blocks of TestRar5MultipleFiles, further into the volume)
V5Far == rarrSigV5 \o Rar5Block(3, DefaultBufSize - 17, <<>>, Zeros(DefaultBufSize - 17))
                   \o Rar5Block(1, 0, <<0>>, <<>>)
                   \o Rar5Block(2, 3, Rar5FileFields(3, 0, NameC), <<7, 7, 7>>)
                   \o Rar5Block(2, 0, Rar5FileFields(5, 0, NameA), <<>>)
                   \o Rar5Block(5, 0, <<>>, <<>>)
\* TestRar5MultipleFiles: two files with data, then the end-of-archive block
V5Multi == rarrSigV5 \o Rar5Block(2, 2, Rar5FileFields(2, 0, NameC), <<1, 2>>)
                     \o Rar5Block(2, 3, Rar5FileFields(3, 0, NameA), <<3, 4, 5>>)
                     \o Rar5Block(5, 0, <<>>, <<>>)
\* the same with a third file header after the end-of-archive block
V5AfterEnd == V5Multi \o Rar5Block(2, 0, Rar5FileFields(5, 0, NameB), <<>>)
\* a main header and the end-of-archive block: no file
V5EndOnly == rarrSigV5 \o Rar5Block(1, 0, <<0>>, <<>>) \o Rar5Block(5, 0, <<>>, <<>>)

\* a Format-B block given its header content
Rar5Head(head) == Zeros(4) \o encodeVarint(Len(head)) \o head

\* blocks with a structural error, and the place in parseRar5 that rejects
\* each: headSize 3,000,000 (TestErrorsAndEdgeCases p2); a headSize of ten
\* continuation bytes; TestRar5ExtraAreaOverflow; TestRar5BadNameLen and a name
\* length past the end of the header; mtime and CRC32 flagged with three and
\* two bytes left; a flags and a nameLen varint cut short by the header's end
Rar5BadBlocks ==
    {[bytes |-> Zeros(4) \o <<192, 141, 183, 2>>, site |-> "parseRar5:suspicious headSize"],
     [bytes |-> Zeros(4) \o [k \in 1..10 |-> 128], site |-> "parseRar5:read headSize"],
     [bytes |-> Rar5Head(<<2, 1, 10>>), site |-> "parseRar5:extraAreaSize overflow"],
     [bytes |-> Rar5Head(<<2, 0, 0, 5, 0, 0, 0, 0>>), site |-> "parseRar5:bad nameLen"],
     [bytes |-> Rar5Head(<<2, 0, 0, 5, 0, 0, 0, 9, 97>>), site |-> "parseRar5:bad nameLen"],
     [bytes |-> Rar5Head(<<2, 0, 2, 5, 0, 1, 2, 3>>), site |-> "parseRar5:mtime truncated"],
     [bytes |-> Rar5Head(<<2, 0, 6, 5, 0, 1, 2, 3, 4, 1, 2>>), site |-> "parseRar5:crc32 truncated"],
     [bytes |-> Rar5Head(<<2, 128>>), site |-> "parseRar5:flags"],
     [bytes |-> Rar5Head(<<2, 0, 0, 5, 0, 0, 0, 128>>), site |-> "parseRar5:nameLen"]}

\* Format-B volumes with one such block: first or after a file with three
\* bytes of data, last or followed by the end-of-archive block or by more than
\* a buffer of zero bytes
V5Structural ==
    {[vol |-> rarrSigV5 \o before \o b.bytes \o after, site |-> b.site, afterFile |-> before # <<>>] :
        b \in Rar5BadBlocks,
        before \in {<<>>, Rar5Block(2, 3, Rar5FileFields(3, 0, NameC), <<7, 7, 7>>)},
        after \in {<<>>, Rar5Block(5, 0, <<>>, <<>>), Zeros(DefaultBufSize + 16)}}

\* TestErrorsAndEdgeCases p1: "not a rar"
NoSig == <<110, 111, 116, 32, 97, 32, 114, 97, 114>>
EmptyFile == <<>>

Corpus ==
    {V3Good, V3NoPad, V3Compressed, V3EncFile, V3EncCompressed, V3EncMain80, V3EncMain200,
     V3MainThenFile, V3LateEncMain, V3Legacy, V3ShortName, V3LegacyFail, V3MainOnly,
     V3HiddenMain, V3TruncHiddenMain, V3TruncBody, V3Sfx, V3SfxEdge, V3TwoFiles, V3Far,
     V5Good, V5Enc, V5EncThenFile, V5Compressed, V5TwoFiles, V5MainFileEnd, V5TruncData,
     V5BadHead, V5BadName, V5Sfx, V5TruncHead, V5FileThenTrunc, V5ZeroHead, V5FarTrunc, V5Far,
     V5Multi, V5AfterEnd, V5EndOnly,
     NoSig, EmptyFile}
        \cup {x.vol : x \in V5Structural}

\* ---------------------------------------------------------------- the state

VARIABLES
    vol,        \* indexSingle, step by step: the bytes of the volume indexed
    run,        \* ... and, per kind of handle (TRUE: seekable), how far it has got
    op,         \* the exported operation called
    fs,         \* its FileSystem
    indexed,    \* per path: what indexSingle returns on fs (fs never changes)
    first,      \* ListFilesFS: the path of the volume given
    volPaths,   \* IndexVolumes, IndexVolumesParallel: the paths to index
    workers,    \* IndexVolumesParallel: the workers argument
    numCPU,     \* runtime.NumCPU()
    pc,         \* where the calling goroutine stands
    i,          \* its loop index (0-based)
    res,        \* the res slice
    firstErr,   \* the atomic.Value (NoErr: nothing stored)
    closed,     \* close(jobs) has happened
    wpc,        \* per worker goroutine: where it stands
    wjob,       \* per worker: the job index received
    werr,       \* per worker: the error indexSingle gave it
    idx,        \* what IndexVolumesParallel returned
    ret,        \* what the operation returned
    stores,     \* history: the errors stored into firstErr, in order
    finished,   \* history: the job indexes whose indexSingle has returned, in order
    lateRecv,   \* history: the job indexes received when firstErr was set
    opened,     \* history: the job indexes whose volume has been opened
    agg,        \* AggregateFiles called on its own: the caller's slice and what the calls returned
    dec         \* the varint decoders called on their own: the bytes and what each returned

parseVars == <<vol, run>>

orchVars == <<op, fs, indexed, first, volPaths, workers, numCPU, pc, i, res, firstErr, closed,
              wpc, wjob, werr, idx, ret, stores, finished, lateRecv, opened>>

vars == <<vol, run, agg, dec, op, fs, indexed, first, volPaths, workers, numCPU, pc, i, res, firstErr, closed,
          wpc, wjob, werr, idx, ret, stores, finished, lateRecv, opened>>

\* a call result: value is the slice returned (<<>> for nil), err the error
Result(value, err) == [value |-> value, err |-> err]

NoResult == Result(<<>>, NoErr)

NoFS == [files |-> <<>>, seekable |-> TRUE]

\* AggregateFiles has not been called on its own
NoAgg == [given |-> <<>>, vs |-> <<>>, outs |-> <<>>]

\* no decoder called
NoDec == [input |-> <<>>, stream |-> <<>>, slice |-> <<>>]

\* no exported operation is running
OrchIdle ==
    /\ op = "none" /\ fs = NoFS /\ indexed = <<>> /\ first = NoPath /\ volPaths = <<>>
    /\ workers = 0 /\ numCPU = 1 /\ pc = "idle" /\ i = 0
    /\ res = <<>> /\ firstErr = NoErr /\ closed = FALSE
    /\ wpc = <<>> /\ wjob = <<>> /\ werr = <<>>
    /\ idx = NoResult /\ ret = NoResult
    /\ stores = <<>> /\ finished = <<>> /\ lateRecv = {} /\ opened = {}

\* ------------------------------------------------- indexSingle, step by step

NoParse3 == Rar3Result(NoErr, <<>>, <<>>)
NoParse5 == Rar5Result(NoErr, <<>>, <<>>)
NoLegacy == LegacyResult(NoErr, <<>>)

\* a run that has opened the file (lines 75-82)
OpenedRun ==
    [pc |-> "detect", version |-> VersionUnknown, sigOffset |-> 0, start |-> 0,
     strict3 |-> NoParse3, strict5 |-> NoParse5, strictRan |-> FALSE,
     legacy |-> NoLegacy, legacyRan |-> FALSE, out |-> Returned(NilVI, NoErr)]

\* the FileSystem of a run: the volume under path 1, handles of one kind
RunFS(s) == [files |-> [p \in {1} |-> vol], seekable |-> s]

ParseInit ==
    /\ vol \in Corpus
    /\ run = [s \in BOOLEAN |-> OpenedRun]
    /\ agg = NoAgg
    /\ dec = NoDec
    /\ OrchIdle

\* lines 83-86: detectSignature
Detect(s) ==
    /\ run[s].pc = "detect"
    /\ LET sig == detectSignature(vol)
       IN  run' = [run EXCEPT ![s] =
                     IF IsErr(sig.err)
                     THEN [@ EXCEPT !.pc = "done", !.out = Returned(NilVI, sig.err)]
                     ELSE [@ EXCEPT !.pc = "position", !.version = sig.version,
                                    !.sigOffset = sig.sigOffset]]
    /\ UNCHANGED <<vol, agg, dec, orchVars>>

\* lines 87-97: Seek or Discard, then br.Reset(f)
Position(s) ==
    /\ run[s].pc = "position"
    /\ run' = [run EXCEPT ![s] = [@ EXCEPT !.pc = "parse",
                                           !.start = StartOffset(vol, s, run[s].sigOffset)]]
    /\ UNCHANGED <<vol, agg, dec, orchVars>>

\* lines 99-108, 120: the strict Format-A parser, and whether legacy is tried
Strict3(s) ==
    /\ run[s].pc = "parse"
    /\ run[s].version = VersionRar3
    /\ LET strict == parseRar3(vol, run[s].start, s, run[s].sigOffset, Len(vol))
       IN  run' = [run EXCEPT ![s] =
                     IF NeedLegacy(strict)
                     THEN [@ EXCEPT !.pc = "legacy", !.strict3 = strict, !.strictRan = TRUE]
                     ELSE [@ EXCEPT !.pc = "done", !.strict3 = strict, !.strictRan = TRUE,
                                    !.out = Rar3Direct(1, strict)]]
    /\ UNCHANGED <<vol, agg, dec, orchVars>>

\* lines 109-117, 121-127: the legacy attempt and what is returned after it
Legacy(s) ==
    /\ run[s].pc = "legacy"
    /\ LET legacy == LegacyAttempt(vol, s, run[s].sigOffset)
       IN  run' = [run EXCEPT ![s] =
                     [@ EXCEPT !.pc = "done", !.legacy = legacy, !.legacyRan = TRUE,
                               !.out = Rar3Fallback(1, run[s].strict3, legacy)]]
    /\ UNCHANGED <<vol, agg, dec, orchVars>>

\* lines 129-137: the Format-B parser
Strict5(s) ==
    /\ run[s].pc = "parse"
    /\ run[s].version = VersionRar5
    /\ LET r5 == parseRar5(vol, run[s].start, s, run[s].sigOffset, Len(vol))
       IN  run' = [run EXCEPT ![s] =
                     [@ EXCEPT !.pc = "done", !.strict5 = r5, !.strictRan = TRUE,
                               !.out = Rar5Direct(1, r5)]]
    /\ UNCHANGED <<vol, agg, dec, orchVars>>

ParseNext ==
    \E s \in BOOLEAN : Detect(s) \/ Position(s) \/ Strict3(s) \/ Legacy(s) \/ Strict5(s)

\* indexSingle on every volume of the corpus, through both kinds of handle
ParseSpec == ParseInit /\ [][ParseNext]_vars

\* the steps arrive at what the operator indexSingle computes
StepsAgree ==
    \A s \in BOOLEAN : run[s].pc = "done" => run[s].out = indexSingle(RunFS(s), 1)

\* ------------------------------------------------------------- aggregation

\* the total taken from the packed size the header declares
AggregatePartDeclaredSize(ag, path, fb) ==
    [Name |-> ag.Name,
     TotalPackedSize |-> ag.TotalPackedSize + fb.PackedSize,
     TotalUnpackedSize |-> IF ag.TotalUnpackedSize = 0 /\ fb.UnpackedSize > 0
                           THEN fb.UnpackedSize ELSE ag.TotalUnpackedSize,
     Parts |-> Append(ag.Parts,
                      [Path |-> path, DataOffset |-> fb.DataPos,
                       PackedSize |-> fb.VolumeDataSize, UnpackedSize |-> fb.UnpackedSize,
                       Stored |-> fb.Stored, Encrypted |-> fb.Encrypted]),
     AnyEncrypted |-> ag.AnyEncrypted \/ fb.Encrypted,
     AllStored |-> ag.AllStored /\ fb.Stored]

\* the unpacked size summed across the parts
AggregatePartSummedUnpacked(ag, path, fb) ==
    [Name |-> ag.Name,
     TotalPackedSize |-> ag.TotalPackedSize + fb.VolumeDataSize,
     TotalUnpackedSize |-> ag.TotalUnpackedSize + fb.UnpackedSize,
     Parts |-> Append(ag.Parts,
                      [Path |-> path, DataOffset |-> fb.DataPos,
                       PackedSize |-> fb.VolumeDataSize, UnpackedSize |-> fb.UnpackedSize,
                       Stored |-> fb.Stored, Encrypted |-> fb.Encrypted]),
     AnyEncrypted |-> ag.AnyEncrypted \/ fb.Encrypted,
     AllStored |-> ag.AllStored /\ fb.Stored]

\* the AggregatedFile of name with the part for block fb of the volume at path added
AggregatePart(ag, path, fb) ==
    [Name |-> ag.Name,
     TotalPackedSize |-> ag.TotalPackedSize + fb.VolumeDataSize,
     TotalUnpackedSize |-> IF ag.TotalUnpackedSize = 0 /\ fb.UnpackedSize > 0
                           THEN fb.UnpackedSize ELSE ag.TotalUnpackedSize,
     Parts |-> Append(ag.Parts,
                      [Path |-> path, DataOffset |-> fb.DataPos,
                       PackedSize |-> fb.VolumeDataSize, UnpackedSize |-> fb.UnpackedSize,
                       Stored |-> fb.Stored, Encrypted |-> fb.Encrypted]),
     AnyEncrypted |-> ag.AnyEncrypted \/ fb.Encrypted,
     AllStored |-> ag.AllStored /\ fb.Stored]

\* &AggregatedFile{Name: name, AllStored: true}
NewAggregatedFile(name) ==
    [Name |-> name, TotalPackedSize |-> 0, TotalUnpackedSize |-> 0, Parts |-> <<>>,
     AnyEncrypted |-> FALSE, AllStored |-> TRUE]

\* the inner loop without the test for an empty name
AggregateBlockKeepEmpty(out, path, fb) ==
    IF \E k \in 1..Len(out) : out[k].Name = fb.Name
    THEN [k \in 1..Len(out) |-> IF out[k].Name = fb.Name
                                THEN AggregatePart(out[k], path, fb) ELSE out[k]]
    ELSE Append(out, AggregatePart(NewAggregatedFile(fb.Name), path, fb))

\* the body of the inner loop of AggregateFiles: out is m read in the order of `order`
AggregateBlock(out, path, fb) ==
    IF fb.Name = <<>> THEN out
    ELSE IF \E k \in 1..Len(out) : out[k].Name = fb.Name
    THEN [k \in 1..Len(out) |-> IF out[k].Name = fb.Name
                                THEN AggregatePart(out[k], path, fb) ELSE out[k]]
    ELSE Append(out, AggregatePart(NewAggregatedFile(fb.Name), path, fb))

RECURSIVE AggregateBlocks(_, _, _)
AggregateBlocks(out, path, fbs) ==
    IF fbs = <<>> THEN out
    ELSE AggregateBlocks(AggregateBlock(out, path, Head(fbs)), path, Tail(fbs))

RECURSIVE AggregateVolumes(_, _)
AggregateVolumes(out, vs) ==
    IF vs = <<>> THEN out
    ELSE AggregateVolumes(AggregateBlocks(out, Head(vs).Path, Head(vs).FileBlocks), Tail(vs))

\* AggregateFiles
AggregateFiles(vs) == AggregateVolumes(<<>>, vs)

\* BuildVolumeFiles: one FileEntry per file block of each volume
BuildVolumeFiles(vs) ==
    [v \in 1..Len(vs) |->
        [Path |-> vs[v].Path,
         Files |-> [k \in 1..Len(vs[v].FileBlocks) |->
                       [Name |-> vs[v].FileBlocks[k].Name,
                        DataOffset |-> vs[v].FileBlocks[k].DataPos,
                        PackedSize |-> vs[v].FileBlocks[k].VolumeDataSize]]]]

\* the validation of ListFilesFS with its tests in the other order
RECURSIVE ValidateBlocksStoredFirst(_, _)
ValidateBlocksStoredFirst(path, fbs) ==
    IF fbs = <<>> THEN NoErr
    ELSE IF ~Head(fbs).Stored THEN Wrap(path, Err("ErrCompressedNotSupported", "ListFilesFS"))
    ELSE IF Head(fbs).Encrypted THEN Wrap(path, Err("ErrPasswordProtected", "ListFilesFS"))
    ELSE ValidateBlocksStoredFirst(path, Tail(fbs))

\* lines 622-629 of ListFilesFS: the first block of a volume that is encrypted
\* or not stored decides the error
RECURSIVE ValidateBlocks(_, _)
ValidateBlocks(path, fbs) ==
    IF fbs = <<>> THEN NoErr
    ELSE IF Head(fbs).Encrypted THEN Wrap(path, Err("ErrPasswordProtected", "ListFilesFS"))
    ELSE IF ~Head(fbs).Stored THEN Wrap(path, Err("ErrCompressedNotSupported", "ListFilesFS"))
    ELSE ValidateBlocks(path, Tail(fbs))

\* lines 621-630 of ListFilesFS
RECURSIVE ValidateVolumes(_)
ValidateVolumes(vs) ==
    IF vs = <<>> THEN NoErr
    ELSE IF IsErr(ValidateBlocks(Head(vs).Path, Head(vs).FileBlocks))
    THEN ValidateBlocks(Head(vs).Path, Head(vs).FileBlocks)
    ELSE ValidateVolumes(Tail(vs))

\* lines 617-631 of ListFilesFS: what it returns once IndexVolumesParallel has
\* returned r
ListFilesResult(r) ==
    IF IsErr(r.err) THEN Result(<<>>, r.err)
    ELSE IF IsErr(ValidateVolumes(r.value)) THEN Result(<<>>, ValidateVolumes(r.value))
    ELSE Result(AggregateFiles(r.value), NoErr)

\* -------------------------------------------------------------- discovery
\* Paths are the part numbers of one archive name.part<N>.rar: path N is the
\* file fmt.Sprintf builds for i = N.

MaxParts == 9999

\* DiscoverVolumesFS for a first path of the part<N>.rar family: the parts
\* 1, 2, ... that exist, up to the first gap
DiscoverVolumesFS(files, firstPath) ==
    IF 1 \notin DOMAIN files
    THEN Result(<<>>, Err("other", "DiscoverVolumesFS:first volume not found"))
    ELSE Result([k \in 1..Min(MaxParts,
                               Cardinality({n \in DOMAIN files : \A j \in 1..n : j \in DOMAIN files}))
                   |-> k],
                NoErr)

\* ------------------------------------------------- the exported operations

MaxVols == 2
MaxWorkers == 2

Ops == {"IndexVolumes", "IndexVolumesParallel", "ListFilesFS"}

\* what the files of the FileSystem hold when the flags of the blocks are read
\* (ListFilesFS) or one goroutine indexes (IndexVolumes)
OrchContents == {V3Good, V3EncFile, V3Compressed, V3EncCompressed, NoSig}

\* ... and when IndexVolumesParallel is called directly: a volume that indexes
\* and one that does not
ParContents == {V3Good, NoSig}

\* the FileSystems of the repository (osFS, memFS, slowMemFS) open seekable
\* files; a path outside DOMAIN files does not open
FileSystems(contents) ==
    UNION {[files : [present -> contents], seekable : {TRUE}] :
           present \in SUBSET (1..MaxVols)}

Init ==
    /\ vol = <<>>
    /\ run = [s \in BOOLEAN |-> OpenedRun]
    /\ agg = NoAgg
    /\ dec = NoDec
    /\ op \in Ops
    /\ fs \in FileSystems(IF op = "IndexVolumesParallel" THEN ParContents ELSE OrchContents)
    /\ indexed = [p \in 1..MaxVols |-> indexSingle(fs, p)]
    /\ first = (IF op = "ListFilesFS" THEN 1 ELSE NoPath)
    /\ volPaths \in (IF op = "ListFilesFS" THEN {<<>>}
                     ELSE {[k \in 1..n |-> k] : n \in {m \in 0..MaxVols : DOMAIN fs.files \subseteq 1..m}})
    /\ workers \in (IF op = "IndexVolumesParallel" THEN 0..MaxWorkers ELSE {0})
    /\ numCPU \in (IF op = "IndexVolumes" \/ workers > 0 THEN {1} ELSE 1..MaxWorkers)
    /\ pc = (IF op = "IndexVolumes" THEN "seq" ELSE IF op = "ListFilesFS" THEN "list" ELSE "par")
    /\ i = 0
    /\ res = <<>> /\ firstErr = NoErr /\ closed = FALSE
    /\ wpc = <<>> /\ wjob = <<>> /\ werr = <<>>
    /\ idx = NoResult /\ ret = NoResult
    /\ stores = <<>> /\ finished = <<>> /\ lateRecv = {} /\ opened = {}

parVars == <<firstErr, closed, wpc, wjob, werr, idx, stores, finished, lateRecv, opened>>

\* a loop that leaves out a volume that fails and goes on to the next
SeqAfterSkipFailed(r) ==
    /\ res' = (IF IsErr(r.err) THEN res ELSE Append(res, r.vi))
    /\ i' = i + 1
    /\ UNCHANGED <<pc, ret>>

\* IndexVolumes, lines 17-21: r is what indexSingle returned for volPaths[i]
SeqAfter(r) ==
    IF IsErr(r.err)
    THEN /\ ret' = Result(<<>>, Wrap(volPaths[i + 1], r.err))
         /\ pc' = "done"
         /\ UNCHANGED <<i, res>>
    ELSE /\ res' = Append(res, r.vi)
         /\ i' = i + 1
         /\ UNCHANGED <<pc, ret>>

\* IndexVolumes: one turn of the loop
SeqStep ==
    /\ pc = "seq"
    /\ i < Len(volPaths)
    /\ opened' = opened \cup {i}
    /\ finished' = Append(finished, i)
    /\ SeqAfter(indexed[volPaths[i + 1]])
    /\ UNCHANGED <<parseVars, agg, dec, op, fs, indexed, first, volPaths, workers, numCPU,
                   firstErr, closed, wpc, wjob, werr, idx, stores, lateRecv>>

\* IndexVolumes, line 23
SeqReturn ==
    /\ pc = "seq"
    /\ i = Len(volPaths)
    /\ ret' = Result(res, NoErr)
    /\ pc' = "done"
    /\ UNCHANGED <<parseVars, agg, dec, op, fs, indexed, first, volPaths, workers, numCPU, i, res, parVars>>

\* ListFilesFS, lines 612-616: d is what DiscoverVolumesFS returned
ListAfter(d) ==
    IF IsErr(d.err)
    THEN /\ ret' = Result(<<>>, d.err)
         /\ pc' = "done"
         /\ UNCHANGED volPaths
    ELSE /\ volPaths' = d.value
         /\ pc' = "par"
         /\ UNCHANGED ret

ListDiscover ==
    /\ pc = "list"
    /\ ListAfter(DiscoverVolumesFS(fs.files, first))
    /\ UNCHANGED <<parseVars, agg, dec, op, fs, indexed, first, workers, numCPU, i, res, parVars>>

\* IndexVolumesParallel has returned r to its caller
Handed(r) ==
    /\ idx' = r
    /\ IF op = "ListFilesFS" THEN pc' = "validate" /\ UNCHANGED ret
       ELSE pc' = "done" /\ ret' = r

\* a start that gives every volume a goroutine of its own
ParStartPerVolume ==
    /\ pc = "par"
    /\ IF Len(volPaths) = 0
       THEN /\ Handed(Result(<<>>, NoErr))
            /\ UNCHANGED <<res, wpc, wjob, werr>>
       ELSE /\ res' = [k \in 1..Len(volPaths) |-> NilVI]
            /\ wpc' = [w \in 1..Len(volPaths) |-> "recv"]
            /\ wjob' = [w \in 1..Len(volPaths) |-> 0]
            /\ werr' = [w \in 1..Len(volPaths) |-> NoErr]
            /\ pc' = "loop"
            /\ UNCHANGED <<idx, ret>>
    /\ UNCHANGED <<parseVars, agg, dec, op, fs, indexed, first, volPaths, workers, numCPU, i, firstErr, closed,
                   stores, finished, lateRecv, opened>>

\* IndexVolumesParallel, lines 29-59
ParStart ==
    /\ pc = "par"
    /\ IF Len(volPaths) = 0
       THEN /\ Handed(Result(<<>>, NoErr))
            /\ UNCHANGED <<res, wpc, wjob, werr>>
       ELSE /\ res' = [k \in 1..Len(volPaths) |-> NilVI]
            /\ wpc' = [w \in 1..(IF workers <= 0 THEN numCPU ELSE workers) |-> "recv"]
            /\ wjob' = [w \in 1..(IF workers <= 0 THEN numCPU ELSE workers) |-> 0]
            /\ werr' = [w \in 1..(IF workers <= 0 THEN numCPU ELSE workers) |-> NoErr]
            /\ pc' = "loop"
            /\ UNCHANGED <<idx, ret>>
    /\ UNCHANGED <<parseVars, agg, dec, op, fs, indexed, first, volPaths, workers, numCPU, i, firstErr, closed,
                   stores, finished, lateRecv, opened>>

\* lines 60-63: the loop test and the Load
Loop ==
    /\ pc = "loop"
    /\ pc' = (IF i < Len(volPaths) /\ firstErr = NoErr THEN "send" ELSE "close")
    /\ UNCHANGED <<parseVars, agg, dec, op, fs, indexed, first, volPaths, workers, numCPU, i, res, ret, parVars>>

\* a send that every waiting worker receives
SendToAll(w) ==
    /\ pc = "send"
    /\ wpc[w] = "recv"
    /\ wjob' = [v \in DOMAIN wjob |-> IF wpc[v] = "recv" THEN i ELSE wjob[v]]
    /\ wpc' = [v \in DOMAIN wpc |-> IF wpc[v] = "recv" THEN "check" ELSE wpc[v]]
    /\ lateRecv' = (IF firstErr # NoErr THEN lateRecv \cup {i} ELSE lateRecv)
    /\ i' = i + 1
    /\ pc' = "loop"
    /\ UNCHANGED <<parseVars, agg, dec, op, fs, indexed, first, volPaths, workers, numCPU, res, firstErr, closed,
                   werr, idx, ret, stores, finished, opened>>

\* line 64 meeting line 41: jobs is unbuffered, so the send and worker w's
\* receive happen together
Send(w) ==
    /\ pc = "send"
    /\ wpc[w] = "recv"
    /\ wjob' = [wjob EXCEPT ![w] = i]
    /\ wpc' = [wpc EXCEPT ![w] = "check"]
    /\ lateRecv' = (IF firstErr # NoErr THEN lateRecv \cup {i} ELSE lateRecv)
    /\ i' = i + 1
    /\ pc' = "loop"
    /\ UNCHANGED <<parseVars, agg, dec, op, fs, indexed, first, volPaths, workers, numCPU, res, firstErr, closed,
                   werr, idx, ret, stores, finished, opened>>

\* a dispatcher that goes on to wg.Wait() with jobs left open
CloseForgotten ==
    /\ pc = "close"
    /\ pc' = "wait"
    /\ UNCHANGED <<parseVars, agg, dec, op, fs, indexed, first, volPaths, workers, numCPU, i, res, firstErr, closed,
                   wpc, wjob, werr, idx, ret, stores, finished, lateRecv, opened>>

\* line 66
Close ==
    /\ pc = "close"
    /\ closed' = TRUE
    /\ pc' = "wait"
    /\ UNCHANGED <<parseVars, agg, dec, op, fs, indexed, first, volPaths, workers, numCPU, i, res, firstErr,
                   wpc, wjob, werr, idx, ret, stores, finished, lateRecv, opened>>

\* line 67: wg.Wait() returns once every worker has run wg.Done()
Wait ==
    /\ pc = "wait"
    /\ \A w \in DOMAIN wpc : wpc[w] = "exited"
    /\ pc' = "return"
    /\ UNCHANGED <<parseVars, agg, dec, op, fs, indexed, first, volPaths, workers, numCPU, i, res, ret, parVars>>

\* a return of res whether or not an error was recorded
ReturnPartial ==
    /\ pc = "return"
    /\ Handed(Result(res, firstErr))
    /\ UNCHANGED <<parseVars, agg, dec, op, fs, indexed, first, volPaths, workers, numCPU, i, res, firstErr, closed,
                   wpc, wjob, werr, stores, finished, lateRecv, opened>>

\* lines 68-71
Return ==
    /\ pc = "return"
    /\ Handed(IF firstErr # NoErr THEN Result(<<>>, firstErr) ELSE Result(res, NoErr))
    /\ UNCHANGED <<parseVars, agg, dec, op, fs, indexed, first, volPaths, workers, numCPU, i, res, firstErr, closed,
                   wpc, wjob, werr, stores, finished, lateRecv, opened>>

\* ListFilesFS, lines 617-631
ListValidate ==
    /\ pc = "validate"
    /\ ret' = ListFilesResult(idx)
    /\ pc' = "done"
    /\ UNCHANGED <<parseVars, agg, dec, op, fs, indexed, first, volPaths, workers, numCPU, i, res, parVars>>

\* ---- the worker goroutines of IndexVolumesParallel

\* line 41: range over the closed, drained channel ends; the deferred
\* wg.Done() of line 40 runs
Exit(w) ==
    /\ wpc[w] = "recv"
    /\ closed
    /\ wpc' = [wpc EXCEPT ![w] = "exited"]
    /\ UNCHANGED <<parseVars, agg, dec, op, fs, indexed, first, volPaths, workers, numCPU, pc, i, res, firstErr,
                   closed, wjob, werr, idx, ret, stores, finished, lateRecv, opened>>

\* a worker that indexes every job it receives
CheckNothing(w) ==
    /\ wpc[w] = "check"
    /\ wpc' = [wpc EXCEPT ![w] = "call"]
    /\ UNCHANGED <<parseVars, agg, dec, op, fs, indexed, first, volPaths, workers, numCPU, pc, i, res, firstErr,
                   closed, wjob, werr, idx, ret, stores, finished, lateRecv, opened>>

\* lines 42-44: the Load that skips work once an error is recorded
Check(w) ==
    /\ wpc[w] = "check"
    /\ wpc' = [wpc EXCEPT ![w] = IF firstErr # NoErr THEN "recv" ELSE "call"]
    /\ UNCHANGED <<parseVars, agg, dec, op, fs, indexed, first, volPaths, workers, numCPU, pc, i, res, firstErr,
                   closed, wjob, werr, idx, ret, stores, finished, lateRecv, opened>>

\* a worker that stores its volume in the next free slot of res, as append would
CallAfterAppend(w, r) ==
    /\ finished' = Append(finished, wjob[w])
    /\ IF IsErr(r.err)
       THEN /\ werr' = [werr EXCEPT ![w] = r.err]
            /\ wpc' = [wpc EXCEPT ![w] = "failed"]
            /\ UNCHANGED res
       ELSE /\ res' = [res EXCEPT ![Len(finished) + 1] = r.vi]
            /\ wpc' = [wpc EXCEPT ![w] = "recv"]
            /\ UNCHANGED werr

\* lines 45-46, 53: r is what indexSingle returned to worker w
CallAfter(w, r) ==
    /\ finished' = Append(finished, wjob[w])
    /\ IF IsErr(r.err)
       THEN /\ werr' = [werr EXCEPT ![w] = r.err]
            /\ wpc' = [wpc EXCEPT ![w] = "failed"]
            /\ UNCHANGED res
       ELSE /\ res' = [res EXCEPT ![wjob[w] + 1] = r.vi]
            /\ wpc' = [wpc EXCEPT ![w] = "recv"]
            /\ UNCHANGED werr

Call(w) ==
    /\ wpc[w] = "call"
    /\ opened' = opened \cup {wjob[w]}
    /\ CallAfter(w, indexed[volPaths[wjob[w] + 1]])
    /\ UNCHANGED <<parseVars, agg, dec, op, fs, indexed, first, volPaths, workers, numCPU, pc, i, firstErr,
                   closed, wjob, idx, ret, stores, lateRecv>>

\* a worker that drops the error of its volume
Load48Forget(w) ==
    /\ wpc[w] = "failed"
    /\ wpc' = [wpc EXCEPT ![w] = "recv"]
    /\ UNCHANGED <<parseVars, agg, dec, op, fs, indexed, first, volPaths, workers, numCPU, pc, i, res, firstErr,
                   closed, wjob, werr, idx, ret, stores, finished, lateRecv, opened>>

\* line 48: the Load before the Store
Load48(w) ==
    /\ wpc[w] = "failed"
    /\ wpc' = [wpc EXCEPT ![w] = IF firstErr = NoErr THEN "store" ELSE "recv"]
    /\ UNCHANGED <<parseVars, agg, dec, op, fs, indexed, first, volPaths, workers, numCPU, pc, i, res, firstErr,
                   closed, wjob, werr, idx, ret, stores, finished, lateRecv, opened>>

\* line 49
Store(w) ==
    /\ wpc[w] = "store"
    /\ firstErr' = Wrap(volPaths[wjob[w] + 1], werr[w])
    /\ stores' = Append(stores, Wrap(volPaths[wjob[w] + 1], werr[w]))
    /\ wpc' = [wpc EXCEPT ![w] = "recv"]
    /\ UNCHANGED <<parseVars, agg, dec, op, fs, indexed, first, volPaths, workers, numCPU, pc, i, res,
                   closed, wjob, werr, idx, ret, finished, lateRecv, opened>>

\* the calling goroutine inside IndexVolumesParallel
Dispatcher == ParStart \/ Loop \/ (\E w \in DOMAIN wpc : Send(w)) \/ Close \/ Wait \/ Return

\* worker goroutine w
Worker(w) == Exit(w) \/ Check(w) \/ Call(w) \/ Load48(w) \/ Store(w)

ParNext ==
    \/ ParStart
    \/ Loop
    \/ \E w \in DOMAIN wpc : Send(w)
    \/ Close
    \/ Wait
    \/ Return
    \/ \E w \in DOMAIN wpc : Exit(w)
    \/ \E w \in DOMAIN wpc : Check(w)
    \/ \E w \in DOMAIN wpc : Call(w)
    \/ \E w \in DOMAIN wpc : Load48(w)
    \/ \E w \in DOMAIN wpc : Store(w)

Next ==
    \/ SeqStep
    \/ SeqReturn
    \/ ListDiscover
    \/ ListValidate
    \/ ParNext

\* the three exported operations on every FileSystem of the bounds
Spec == Init /\ [][Next]_vars

\* IndexVolumesParallel called with a worker count, on paths that all open
\* (a volume then fails when it holds no signature)
LiveInit ==
    /\ Init
    /\ op = "IndexVolumesParallel"
    /\ workers > 0
    /\ DOMAIN fs.files = 1..Len(volPaths)

\* IndexVolumesParallel with goroutines that the Go scheduler keeps running
LiveSpec ==
    /\ LiveInit
    /\ [][ParNext]_vars
    /\ WF_vars(Dispatcher)
    /\ \A w \in 1..MaxWorkers : WF_vars(w \in DOMAIN wpc /\ Worker(w))

\* ------------------------------------------------ AggregateFiles on its own

MaxAggBlocks == 3

\* the names of the file blocks given to AggregateFiles ("" included)
AggNames == {<<>>, NameA, NameB}

\* their sizes and flags: a continued part of a large file that reports no
\* unpacked size, an encrypted part, a compressed part
AggShapes ==
    {[PackedSize |-> 2000, VolumeDataSize |-> 5, UnpackedSize |-> 0, Stored |-> TRUE, Encrypted |-> FALSE],
     [PackedSize |-> 3, VolumeDataSize |-> 3, UnpackedSize |-> 8, Stored |-> TRUE, Encrypted |-> TRUE],
     [PackedSize |-> 3, VolumeDataSize |-> 3, UnpackedSize |-> 9, Stored |-> FALSE, Encrypted |-> FALSE]}

\* one file block of the input; newVol: it is the first block read after the
\* volume before it was finished
AggCells == [name : AggNames, shape : AggShapes, newVol : BOOLEAN]

\* the k-th file block given, with a header position of its own
AggFileBlock(c, k) ==
    FileBlock(c.name, 100 * k, 34, c.shape.PackedSize, c.shape.VolumeDataSize, FALSE,
              c.shape.UnpackedSize, c.shape.Stored, c.shape.Encrypted)

\* vs with block fb added to its last volume
AggAddBlock(vs, fb) ==
    [vs EXCEPT ![Len(vs)] =
        [@ EXCEPT !.FileBlocks = Append(@, fb),
                  !.TotalHeaderBytes = IF @ = 0 THEN fb.DataPos ELSE @]]

\* the []*VolumeIndex a caller has built from cells k.. of cs
RECURSIVE AggVolumes(_, _, _)
AggVolumes(vs, cs, k) ==
    IF k > Len(cs) THEN vs
    ELSE AggVolumes(AggAddBlock(IF cs[k].newVol
                                THEN Append(vs, NewVolumeIndex(Len(vs) + 1, VersionRar3))
                                ELSE vs,
                                AggFileBlock(cs[k], k)),
                    cs, k + 1)

\* the inputs: nil, or volumes 1, 2, ... holding up to MaxAggBlocks blocks
AggInputs ==
    {IF cs = <<>> THEN <<>> ELSE AggVolumes(<<NewVolumeIndex(1, VersionRar3)>>, cs, 1) :
        cs \in UNION {[1..n -> AggCells] : n \in 0..MaxAggBlocks}}

AggInit ==
    /\ vol = <<>>
    /\ run = [s \in BOOLEAN |-> OpenedRun]
    /\ OrchIdle
    /\ \E vs \in AggInputs : agg = [given |-> vs, vs |-> vs, outs |-> <<>>]
    /\ dec = NoDec

\* a call that empties the volumes it has read
AggregateCallDraining(vs) ==
    [out |-> AggregateFiles(vs),
     vs |-> [k \in 1..Len(vs) |-> [vs[k] EXCEPT !.FileBlocks = <<>>]]]

\* one call of AggregateFiles: what it returns, and the caller's slice after it
\* (the function only reads vs, v.FileBlocks and copies of the blocks)
AggregateCall(vs) == [out |-> AggregateFiles(vs), vs |-> vs]

\* the caller calls AggregateFiles on its slice, a first and a second time
Aggregate ==
    /\ Len(agg.outs) < 2
    /\ agg' = [agg EXCEPT !.outs = Append(@, AggregateCall(agg.vs).out),
                          !.vs = AggregateCall(agg.vs).vs]
    /\ UNCHANGED <<parseVars, dec, orchVars>>

AggNext == Aggregate

AggSpec == AggInit /\ [][AggNext]_vars

\* ------------------------------------------------- the varint decoders
\* ReadVarint and ReadVarintFromSlice called on the same bytes.

MaxVarintLen == 11

\* a byte that ends a varint (0x02) and one that continues it (0xAC)
VarintBytes == {2, 172}

\* the same two with no value bits (0x00, 0x80)
VarintZeroBytes == {0, 128}

\* the lengths at which a decoded value stays below 2^31
ValueLens == 0..4

\* short inputs that carry a value, and inputs of every length up to the
\* 10-byte cap and beyond it that carry none
VarintInputs ==
    UNION ({[1..n -> VarintBytes] : n \in ValueLens}
           \cup {[1..n -> VarintZeroBytes] : n \in 0..MaxVarintLen})

VarintInit ==
    /\ vol = <<>>
    /\ run = [s \in BOOLEAN |-> OpenedRun]
    /\ agg = NoAgg
    /\ OrchIdle
    /\ \E b \in VarintInputs : dec = [input |-> b, stream |-> <<>>, slice |-> <<>>]

\* ReadVarint on a reader over the bytes
DecodeStream ==
    /\ dec.stream = <<>>
    /\ dec' = [dec EXCEPT !.stream = <<ReadVarint(dec.input, 0)>>]
    /\ UNCHANGED <<parseVars, agg, orchVars>>

\* ReadVarintFromSlice on the bytes
DecodeSlice ==
    /\ dec.slice = <<>>
    /\ dec' = [dec EXCEPT !.slice = <<ReadVarintFromSlice(dec.input, 0, Len(dec.input))>>]
    /\ UNCHANGED <<parseVars, agg, orchVars>>

VarintNext == DecodeStream \/ DecodeSlice

VarintSpec == VarintInit /\ [][VarintNext]_vars

\* ---------------------------------------- claims about the exported operations

\* IndexVolumesParallel has returned to its caller
ParReturned == op \in {"IndexVolumesParallel", "ListFilesFS"} /\ pc \in {"validate", "done"}

\* C1: for every interleaving and worker count, a call of IndexVolumesParallel
\* that returns no error returns one entry per input path, none of them empty,
\* and entry k is the VolumeIndex built from volPaths[k], with that Path.
C1_ResultsInInputOrder ==
    (ParReturned /\ ~IsErr(idx.err)) =>
        /\ Len(idx.value) = Len(volPaths)
        /\ \A k \in 1..Len(volPaths) :
              /\ idx.value[k] # NilVI
              /\ idx.value[k].Path = volPaths[k]
              /\ idx.value[k] = indexSingle(fs, volPaths[k]).vi

\* a call that returned every volume although a later volume finished first
C1_Witness ==
    /\ op = "IndexVolumesParallel" /\ pc = "done" /\ ~IsErr(ret.err)
    /\ Len(ret.value) >= 2
    /\ \E a, b \in DOMAIN finished : a < b /\ finished[a] > finished[b]

\* C2: the first-error slot of IndexVolumesParallel is written once, and the
\* error returned is that first one stored.
C2_FirstErrorWrittenOnce ==
    /\ Len(stores) <= 1
    /\ (ParReturned /\ IsErr(idx.err)) => idx.err = stores[1]

\* C3: a job index received once an error is recorded is never opened, and a
\* volume whose indexing has begun is indexed to its end whatever is recorded
\* meanwhile.
C3_NoNewIndexingAfterError ==
    /\ [](lateRecv \cap opened = {})
    /\ [][\A w \in DOMAIN wpc :
            (wpc[w] = "call" /\ wpc'[w] # "call") =>
                (wjob[w] \in opened' /\ finished' = Append(finished, wjob[w]))]_vars

\* a call that ended with a job received after the error and left unopened
C3_Witness ==
    /\ pc = "done" /\ IsErr(idx.err)
    /\ \E j \in lateRecv : j \notin opened /\ res[j + 1] = NilVI

\* C4: with goroutines that keep running, IndexVolumesParallel returns; the
\* dispatcher does not stay blocked on a send, every worker exits once jobs is
\* closed, and the call returns only when all workers have exited.
C4_AlwaysReturns ==
    /\ <>(pc = "done")
    /\ [](pc = "send" => <>(pc # "send"))
    /\ [](closed => <>(\A w \in DOMAIN wpc : wpc[w] = "exited"))
    /\ [](pc \in {"return", "done"} => \A w \in DOMAIN wpc : wpc[w] = "exited")

\* a call with more workers than volumes that has returned after a failure
C4_Witness ==
    /\ op = "IndexVolumesParallel" /\ pc = "done"
    /\ Len(volPaths) > 0 /\ Len(wpc) > Len(volPaths)
    /\ IsErr(ret.err)
    /\ \A w \in DOMAIN wpc : wpc[w] = "exited"

\* C5: an error from IndexVolumes, IndexVolumesParallel or ListFilesFS comes
\* with a nil result.
C5_ErrorMeansNilResult ==
    /\ IsErr(ret.err) => ret.value = <<>>
    /\ IsErr(idx.err) => idx.value = <<>>

\* a failed parallel call in which a volume was indexed after another had failed
C5_Witness ==
    /\ op = "IndexVolumesParallel" /\ pc = "done" /\ IsErr(ret.err)
    /\ \E a, b \in DOMAIN finished :
          /\ a < b
          /\ res[finished[a] + 1] = NilVI
          /\ res[finished[b] + 1] # NilVI

\* the file blocks of the volumes vs, volumes in order, blocks in order
RECURSIVE AllBlocks(_)
AllBlocks(vs) == IF vs = <<>> THEN <<>> ELSE Head(vs).FileBlocks \o AllBlocks(Tail(vs))

Offending(bs) == {k \in 1..Len(bs) : bs[k].Encrypted \/ ~bs[k].Stored}

FirstOffending(bs) == CHOOSE k \in Offending(bs) : \A j \in Offending(bs) : k <= j

\* what the one file block of a volume written by the builders must record
FlagsRecorded(content, v) ==
    /\ Len(v.FileBlocks) = 1
    /\ v.FileBlocks[1].Encrypted = (content \in {V3EncFile, V3EncCompressed})
    /\ v.FileBlocks[1].Stored = (content \in {V3Good, V3EncFile})

\* C6: once its volumes are indexed, ListFilesFS lists only if no file block
\* is encrypted or not stored; otherwise it returns nothing and the error of
\* the first such block: ErrPasswordProtected if it is encrypted, else
\* ErrCompressedNotSupported.  IndexVolumes on volumes with such blocks succeeds
\* and records the flags.
C6_ListingNeedsStoredPlainBlocks ==
    /\ (op = "ListFilesFS" /\ pc = "done" /\ Len(volPaths) > 0 /\ ~IsErr(idx.err)) =>
          IF Offending(AllBlocks(idx.value)) = {}
          THEN ~IsErr(ret.err)
          ELSE /\ ret.value = <<>>
               /\ ret.err.kind =
                     (IF AllBlocks(idx.value)[FirstOffending(AllBlocks(idx.value))].Encrypted
                      THEN "ErrPasswordProtected" ELSE "ErrCompressedNotSupported")
    /\ (/\ op = "IndexVolumes" /\ pc = "done"
        /\ \A k \in DOMAIN volPaths :
              volPaths[k] \in DOMAIN fs.files /\ fs.files[volPaths[k]] # NoSig) =>
          /\ ~IsErr(ret.err)
          /\ Len(ret.value) = Len(volPaths)
          /\ \A k \in DOMAIN volPaths : FlagsRecorded(fs.files[volPaths[k]], ret.value[k])

\* ListFilesFS refused, after a plain first volume, a block that is both
\* encrypted and compressed, which the indexing had recorded without error
C6_Witness ==
    /\ op = "ListFilesFS" /\ pc = "done" /\ ~IsErr(idx.err)
    /\ Len(idx.value) = 2
    /\ Offending(AllBlocks(idx.value)) = {2}
    /\ AllBlocks(idx.value)[2].Encrypted /\ ~AllBlocks(idx.value)[2].Stored
    /\ ret = Result(<<>>, Wrap(2, Err("ErrPasswordProtected", "ListFilesFS")))

\* ------------------------------------------------- claims about indexSingle

\* the strict Format-A parser of run r has read a main header (type 0x73)
\* with flag 0x0080 or 0x0200
ReadEncryptedMain(r) ==
    \E k \in 1..Len(r.strict3.hdrs) :
        /\ r.strict3.hdrs[k].Type = 115
        /\ (Bit(r.strict3.hdrs[k].Flags, 128) \/ Bit(r.strict3.hdrs[k].Flags, 512))

\* C7: once the strict Format-A parser has read a main header block whose flags
\* have bit 0x0080 or 0x0200 set, indexing the volume has failed with an error
\* matching ErrPasswordProtected, no VolumeIndex is returned, and the legacy
\* scanner is not run, neither before nor after.
C7_EncryptedMainHeaderFails ==
    \A s \in BOOLEAN :
        (run[s].strictRan /\ ReadEncryptedMain(run[s])) =>
            /\ run[s].pc = "done"
            /\ IsPasswordProtected(run[s].out.err)
            /\ run[s].out.vi = NilVI
            /\ ~run[s].legacyRan

\* C7 happens: a run has read a main header with flag 0x0200 (and not 0x0080)
C7_Witness ==
    \E s \in BOOLEAN :
        /\ run[s].pc = "done"
        /\ ReadEncryptedMain(run[s])
        /\ \A k \in 1..Len(run[s].strict3.hdrs) : ~Bit(run[s].strict3.hdrs[k].Flags, 128)

\* C8: a Format-B volume in which the parser has read an archive-encryption
\* header (block type 4) is not indexed: the call fails with an error matching
\* ErrPasswordProtected.  Stated for the seekable handle.
C8_EncryptionHeaderRejected ==
    (/\ run[TRUE].pc = "done"
     /\ run[TRUE].version = VersionRar5
     /\ \E k \in 1..Len(run[TRUE].strict5.types) : run[TRUE].strict5.types[k] = 4)
        => IsPasswordProtected(run[TRUE].out.err)

\* the legacy attempt of run r has given a file block
LegacyGaveBlock(r) == r.legacyRan /\ ~IsErr(r.legacy.err) /\ r.legacy.FileBlocks # <<>>

\* C9: for a Format-A volume the legacy scanner is attempted exactly when the
\* strict parser failed with an error other than ErrPasswordProtected or
\* succeeded with no file block; when the attempt gives a file block the volume
\* is indexed with that block; when the strict parser had failed and the
\* attempt fails or gives no block, the error returned is the strict parser's.
C9_LegacyFallbackPolicy ==
    \A s \in BOOLEAN :
        (run[s].strictRan /\ run[s].version = VersionRar3) =>
            /\ (run[s].pc = "legacy" \/ run[s].legacyRan)
                  <=> \/ IsErr(run[s].strict3.err) /\ ~IsPasswordProtected(run[s].strict3.err)
                      \/ ~IsErr(run[s].strict3.err) /\ run[s].strict3.FileBlocks = <<>>
            /\ LegacyGaveBlock(run[s]) =>
                  /\ run[s].pc = "done"
                  /\ run[s].out.err = NoErr
                  /\ run[s].out.vi.FileBlocks = run[s].legacy.FileBlocks
            /\ (run[s].legacyRan /\ IsErr(run[s].strict3.err) /\ ~LegacyGaveBlock(run[s])) =>
                  /\ run[s].pc = "done"
                  /\ run[s].out.vi = NilVI
                  /\ run[s].out.err = run[s].strict3.err

\* C9 happens: both parsers have failed, with different errors
C9_Witness ==
    \E s \in BOOLEAN :
        /\ run[s].pc = "done"
        /\ run[s].legacyRan
        /\ IsErr(run[s].strict3.err)
        /\ IsErr(run[s].legacy.err)
        /\ run[s].legacy.err # run[s].strict3.err

\* the same VolumeIndex, or a failure in both cases
SameOutcome(a, b) ==
    \/ IsErr(a.err) /\ IsErr(b.err)
    \/ ~IsErr(a.err) /\ ~IsErr(b.err) /\ a.vi = b.vi

\* C10: indexing a volume through a handle that cannot seek gives the same
\* outcome as indexing the same bytes through a seekable handle.
C10_SeekableAndNotAgree ==
    (run[TRUE].pc = "done" /\ run[FALSE].pc = "done")
        => SameOutcome(run[TRUE].out, run[FALSE].out)


\* --------------------------------------------- claims about AggregateFiles

\* the file blocks of vs with the path of their volume, volumes in order,
\* blocks in order
RECURSIVE Tagged(_)
Tagged(vs) ==
    IF vs = <<>> THEN <<>>
    ELSE [k \in 1..Len(Head(vs).FileBlocks) |-> [path |-> Head(vs).Path, fb |-> Head(vs).FileBlocks[k]]]
         \o Tagged(Tail(vs))

\* those carrying name
Named(ts, name) == SelectSeq(ts, LAMBDA t : t.fb.Name = name)

FirstNamed(ts, name) == CHOOSE k \in 1..Len(ts) : ts[k].fb.Name = name /\ \A j \in 1..(k - 1) : ts[j].fb.Name # name

\* the part a file block must give
PartOf(t) ==
    [Path |-> t.path, DataOffset |-> t.fb.DataPos, PackedSize |-> t.fb.VolumeDataSize,
     UnpackedSize |-> t.fb.UnpackedSize, Stored |-> t.fb.Stored, Encrypted |-> t.fb.Encrypted]

\* C11: AggregateFiles returns one AggregatedFile per distinct non-empty name,
\* ordered by first appearance; the parts of each are the blocks of that name,
\* in order; a block with an empty name is in none.
C11_OnePerNameInFirstSeenOrder ==
    \A c \in DOMAIN agg.outs :
        LET out == agg.outs[c]
            ts == Tagged(agg.given)
            names == {ts[k].fb.Name : k \in 1..Len(ts)} \ {<<>>}
        IN  /\ {out[k].Name : k \in 1..Len(out)} = names
            /\ Len(out) = Cardinality(names)
            /\ \A a, b \in 1..Len(out) :
                  a < b => FirstNamed(ts, out[a].Name) < FirstNamed(ts, out[b].Name)
            /\ \A k \in 1..Len(out) :
                  out[k].Parts = [j \in 1..Len(Named(ts, out[k].Name)) |->
                                     PartOf(Named(ts, out[k].Name)[j])]

\* a listing of b.t before a3, from blocks that include one without a name
C11_Witness ==
    /\ Len(agg.outs) >= 1
    /\ Len(agg.outs[1]) = 2
    /\ agg.outs[1][1].Name = NameB /\ agg.outs[1][2].Name = NameA
    /\ \E k \in 1..Len(Tagged(agg.given)) : Tagged(agg.given)[k].fb.Name = <<>>

RECURSIVE SumPackedSize(_)
SumPackedSize(parts) ==
    IF parts = <<>> THEN 0 ELSE Head(parts).PackedSize + SumPackedSize(Tail(parts))

RECURSIVE SumVolumeDataSize(_)
SumVolumeDataSize(ts) ==
    IF ts = <<>> THEN 0 ELSE Head(ts).fb.VolumeDataSize + SumVolumeDataSize(Tail(ts))

\* C12: TotalPackedSize of every AggregatedFile is the sum of the PackedSize of
\* its parts, and the sum of the volume-local data sizes of the blocks of its
\* name.
C12_TotalPackedIsSumOfVolumeData ==
    \A c \in DOMAIN agg.outs : \A k \in 1..Len(agg.outs[c]) :
        /\ agg.outs[c][k].TotalPackedSize = SumPackedSize(agg.outs[c][k].Parts)
        /\ agg.outs[c][k].TotalPackedSize =
              SumVolumeDataSize(Named(Tagged(agg.given), agg.outs[c][k].Name))

\* parts of 5 and 3 bytes in two volumes give 8
C12_Witness ==
    /\ Len(agg.outs) >= 1
    /\ \E k \in 1..Len(agg.outs[1]) :
          /\ Len(agg.outs[1][k].Parts) = 2
          /\ agg.outs[1][k].Parts[1].PackedSize = 5
          /\ agg.outs[1][k].Parts[2].PackedSize = 3
          /\ agg.outs[1][k].Parts[1].Path # agg.outs[1][k].Parts[2].Path
          /\ agg.outs[1][k].TotalPackedSize = 8

\* the unpacked size of the first of ts that reports one, else 0
RECURSIVE FirstUnpackedSize(_)
FirstUnpackedSize(ts) ==
    IF ts = <<>> THEN 0
    ELSE IF Head(ts).fb.UnpackedSize # 0 THEN Head(ts).fb.UnpackedSize
    ELSE FirstUnpackedSize(Tail(ts))

C15_DataWithinVolume ==
    \A s \in BOOLEAN :
        (run[s].pc = "done" /\ ~IsErr(run[s].out.err)) =>
            \A k \in 1..Len(run[s].out.vi.FileBlocks) :
                run[s].out.vi.FileBlocks[k].DataPos + run[s].out.vi.FileBlocks[k].VolumeDataSize
                    <= Len(vol)

\* the Format-B volumes of the corpus that are well formed
WellFormed5 == {V5Good, V5Compressed, V5TwoFiles, V5MainFileEnd, V5Sfx, V5Far, V5Multi, V5EndOnly}

\* the layout of a Format-B volume: the offsets of the file headers (type 2)
\* among the blocks laid out from offset o, up to the end-of-archive block
RECURSIVE FileHeaderOffsets(_, _)
FileHeaderAt(d, o, hb, he, c) ==
    (IF c.blockType = 2 THEN <<o>> ELSE <<>>)
        \o (IF IsErr(c.err) \/ c.blockType = 5 THEN <<>> ELSE FileHeaderOffsets(d, he + c.dataSize))

FileHeaderSized(d, o, hs) ==
    IF IsErr(hs.err) \/ hs.val = 0 \/ Avail(d, o + 4 + hs.n) < hs.val THEN <<>>
    ELSE FileHeaderAt(d, o, o + 4 + hs.n, o + 4 + hs.n + hs.val,
                      Rar5Common(d, o + 4 + hs.n, o + 4 + hs.n + hs.val))

FileHeaderOffsets(d, o) ==
    IF Avail(d, o) < 5 THEN <<>> ELSE FileHeaderSized(d, o, ReadVarint(d, o + 4))

\* block fb is the header laid out at offset o of volume d
HeaderIsAt(d, fb, o) ==
    /\ fb.HeaderPos = o
    /\ fb.HeaderSize = 4 + ReadVarint(d, o + 4).n + ReadVarint(d, o + 4).val
    /\ fb.DataPos = fb.HeaderPos + fb.HeaderSize

\* blocks fbs are, in order, headers laid out in d at the offsets os
HeadersAreAt(d, fbs, os) ==
    /\ Len(fbs) <= Len(os)
    /\ \A k \in 1..Len(fbs) : HeaderIsAt(d, fbs[k], os[k])
    /\ \A k \in 1..Len(fbs) : \A j \in 1..Len(fbs) : j < k => fbs[j].DataPos < fbs[k].DataPos

\* run s indexed a well-formed Format-B volume
Indexed5(s) ==
    /\ run[s].pc = "done"
    /\ ~IsErr(run[s].out.err)
    /\ run[s].version = VersionRar5
    /\ vol \in WellFormed5

\* C16: on a well-formed Format-B volume every FileBlock has DataPos =
\* HeaderPos + HeaderSize, HeaderSize = 4 + length of the header-length varint
\* + header content length, HeaderPos the offset of the block's CRC in the
\* volume, through a seekable handle and through one that is only read, and
\* DataPos strictly increasing in discovery order.
C16_HeaderOffsetsTrue ==
    \A s \in BOOLEAN :
        Indexed5(s) => HeadersAreAt(vol, run[s].out.vi.FileBlocks,
                                    FileHeaderOffsets(vol, run[s].sigOffset + 8))

\* the same for the seekable handle alone
SeekableHeaderOffsetsTrue ==
    Indexed5(TRUE) => HeadersAreAt(vol, run[TRUE].out.vi.FileBlocks,
                                   FileHeaderOffsets(vol, run[TRUE].sigOffset + 8))

\* the Format-A volumes of the corpus that are well formed and hold a file
WellFormed3 == {V3Good, V3NoPad, V3MainThenFile, V3Sfx, V3TwoFiles, V3Far}

\* the layout of a Format-A volume: the offset at which the header of the
\* first file block ends, walking the blocks laid out from offset o by the
\* sizes they declare; -1 when there is none
RECURSIVE FirstPayloadOffset(_, _)
FirstPayloadAfter(d, o, h) ==
    IF IsErr(h.err) \/ h.Size < 7 THEN -1
    ELSE IF h.Type = rar3BlockTypeFile THEN o + h.Size
    ELSE FirstPayloadOffset(d, o + h.Size + h.AddSize)

FirstPayloadOffset(d, o) == FirstPayloadAfter(d, o, readRar3BlockHeader(d, o))

\* where the first block of a Format-A volume is laid out: after the
\* signature and the pad byte some generators write
FirstBlockOffset(d, sigOffset) ==
    IF At(d, sigOffset + 9) \in {rar3BlockTypeMain, rar3BlockTypeFile} THEN sigOffset + 7
    ELSE sigOffset + 8

\* the strict Format-A parser has run for handle s
StrictRan3(s) == run[s].strictRan /\ run[s].version = VersionRar3

\* the strict parser recorded at most one block and read no header after it
StopsAtFirstFileBlock ==
    \A s \in BOOLEAN :
        StrictRan3(s) =>
            /\ Len(run[s].strict3.FileBlocks) <= 1
            /\ Len(run[s].strict3.FileBlocks) = 1 =>
                  /\ run[s].strict3.hdrs # <<>>
                  /\ \A k \in 1..Len(run[s].strict3.hdrs) :
                        run[s].strict3.hdrs[k].Type = rar3BlockTypeFile <=> k = Len(run[s].strict3.hdrs)
                  /\ run[s].strict3.TotalHeaderBytes = run[s].strict3.FileBlocks[1].DataPos

\* the block the strict parser recorded starts its data where the payload of
\* the first file lies in the volume
DataPosIsFirstPayload(s) ==
    (StrictRan3(s) /\ vol \in WellFormed3 /\ Len(run[s].strict3.FileBlocks) = 1) =>
        run[s].strict3.TotalHeaderBytes
            = FirstPayloadOffset(vol, FirstBlockOffset(vol, run[s].sigOffset))

\* C17: the strict Format-A parser never records more than one FileBlock,
\* reads no block header after the first file block, and sets
\* TotalHeaderBytes to that block's DataPos, the offset of the first payload
\* byte in the volume.
C17_StopsAtFirstFileBlock ==
    StopsAtFirstFileBlock /\ \A s \in BOOLEAN : DataPosIsFirstPayload(s)

\* the same with the offset compared for the seekable handle alone
SeekableStopsAtFirstPayload ==
    StopsAtFirstFileBlock /\ DataPosIsFirstPayload(TRUE)

\* the strict parser stopped in front of a second file header
StoppedBeforeSecondFile ==
    /\ vol = V3TwoFiles
    /\ StrictRan3(TRUE)
    /\ Len(run[TRUE].strict3.FileBlocks) = 1
    /\ run[TRUE].strict3.TotalHeaderBytes = 42

\* the fields of a file header with common fields c are sound: a block of
\* type 2 holds its sizes, its flagged sub-fields and its name
FileFieldsSound(d, c) ==
    c.blockType = 2 =>
        ~IsErr(Rar5File(d, c.cur, c.bse, [hdrStart |-> 0, headerSize |-> 0, dataSize |-> 0]).err)

\* the layout of a Format-B volume: the blocks laid out from offset o end at
\* a block whose header length is zero, or is at most MaxHeadSize and runs
\* past the end of the volume
RECURSIVE EndsAtStopBlock(_, _)
StopBlockAfter(d, he, c) ==
    ~IsErr(c.err) /\ FileFieldsSound(d, c) /\ c.blockType # 5 /\ EndsAtStopBlock(d, he + c.dataSize)

StopBlockSized(d, o, hs) ==
    /\ ~IsErr(hs.err)
    /\ hs.val <= MaxHeadSize
    /\ \/ hs.val = 0
       \/ o + 4 + hs.n + hs.val > Len(d)
       \/ StopBlockAfter(d, o + 4 + hs.n + hs.val, Rar5Common(d, o + 4 + hs.n, o + 4 + hs.n + hs.val))

EndsAtStopBlock(d, o) == Avail(d, o) >= 5 /\ StopBlockSized(d, o, ReadVarint(d, o + 4))

\* the Format-B parser has run for handle s and, past the 8 bytes it takes
\* for the signature, reads blocks that end at such a block
MetStopBlock(s) ==
    /\ run[s].strictRan
    /\ run[s].version = VersionRar5
    /\ Avail(vol, run[s].start) >= 8
    /\ EndsAtStopBlock(vol, run[s].start + 8)

\* parsing ended without error with the blocks of the file headers laid out
\* before the stop block, and indexSingle returns them
StoppedCleanly(s) ==
    /\ ~IsErr(run[s].strict5.err)
    /\ Len(run[s].strict5.FileBlocks) = Len(FileHeaderOffsets(vol, run[s].start + 8))
    /\ ~IsErr(run[s].out.err)
    /\ run[s].out.vi.FileBlocks = run[s].strict5.FileBlocks

\* C18: in the Format-B parser a block whose header length is zero, or is at
\* most 2 MiB and would extend past the known file size, ends parsing without
\* error; no FileBlock is added for it and the FileBlocks of the earlier
\* blocks are returned.
C18_StopBlockEndsParsing ==
    \A s \in BOOLEAN : MetStopBlock(s) => StoppedCleanly(s)

\* the same for the seekable handle alone
SeekableStopBlockEndsParsing == MetStopBlock(TRUE) => StoppedCleanly(TRUE)

\* a stop block met after a file block, through a seekable handle
StoppedAfterFile ==
    /\ MetStopBlock(TRUE)
    /\ StoppedCleanly(TRUE)
    /\ Len(run[TRUE].out.vi.FileBlocks) = 1

\* the layout of a Format-B volume: the blocks laid out from offset o lead,
\* header after header, to an end-of-archive block
RECURSIVE EndsAtEndBlock(_, _)
EndBlockAfter(d, he, c) ==
    ~IsErr(c.err) /\ FileFieldsSound(d, c) /\ (c.blockType = 5 \/ EndsAtEndBlock(d, he + c.dataSize))

EndBlockSized(d, o, hs) ==
    /\ ~IsErr(hs.err)
    /\ hs.val > 0
    /\ hs.val <= MaxHeadSize
    /\ o + 4 + hs.n + hs.val <= Len(d)
    /\ EndBlockAfter(d, o + 4 + hs.n + hs.val, Rar5Common(d, o + 4 + hs.n, o + 4 + hs.n + hs.val))

EndsAtEndBlock(d, o) == Avail(d, o) >= 5 /\ EndBlockSized(d, o, ReadVarint(d, o + 4))

\* the Format-B parser has run for handle s and, past the 8 bytes it takes
\* for the signature, reads blocks that lead to an end-of-archive block
MetEndBlock(s) ==
    /\ run[s].strictRan
    /\ run[s].version = VersionRar5
    /\ Avail(vol, run[s].start) >= 8
    /\ EndsAtEndBlock(vol, run[s].start + 8)

\* result r holds one block for each file header laid out at the offsets os,
\* in that order; the parser counts offsets from base where it reads at from
OneBlockPerFileHeader(r, os, base, from) ==
    /\ Len(r.FileBlocks) = Len(os)
    /\ \A k \in 1..Len(r.FileBlocks) : r.FileBlocks[k].HeaderPos - base = os[k] - from

\* the end-of-archive block is the last block read
EndBlockReadLast(r) ==
    /\ r.types # <<>>
    /\ \A k \in 1..Len(r.types) : r.types[k] = 5 <=> k = Len(r.types)

\* TotalHeaderBytes is the DataPos of the first block, 0 without one
TotalHeaderBytesOfFirst(r) ==
    r.TotalHeaderBytes = IF r.FileBlocks = <<>> THEN 0 ELSE r.FileBlocks[1].DataPos

\* C19: the Format-B parser records a FileBlock for every file block (type 2)
\* that precedes the end-of-archive block (type 5), in file order; it stops
\* successfully at that block and parses nothing after it; TotalHeaderBytes
\* is the DataPos of the first FileBlock, whatever file blocks follow, and 0
\* when there is none.
C19_AllFileBlocksUpToEnd ==
    \A s \in BOOLEAN :
        MetEndBlock(s) =>
            /\ ~IsErr(run[s].strict5.err)
            /\ OneBlockPerFileHeader(run[s].strict5, FileHeaderOffsets(vol, run[s].start + 8),
                                     run[s].sigOffset, run[s].start)
            /\ EndBlockReadLast(run[s].strict5)
            /\ TotalHeaderBytesOfFirst(run[s].strict5)
            /\ ~IsErr(run[s].out.err)
            /\ run[s].out.vi.FileBlocks = run[s].strict5.FileBlocks
            /\ run[s].out.vi.TotalHeaderBytes = run[s].strict5.TotalHeaderBytes

\* two files recorded, the file header after the end-of-archive block not
C19_Witness ==
    /\ vol = V5AfterEnd
    /\ MetEndBlock(TRUE)
    /\ Len(run[TRUE].out.vi.FileBlocks) = 2
    /\ run[TRUE].out.vi.TotalHeaderBytes = run[TRUE].out.vi.FileBlocks[1].DataPos
    /\ run[TRUE].strict5.types = <<2, 2, 5>>

\* the Format-A volumes of the corpus that are well formed, hold one file
\* block and store its name length at offset 19 of the fixed region
SingleFile3 == {V3Good, V3NoPad, V3Compressed, V3MainThenFile, V3Sfx, V3Far}

\* the layout of a Format-A volume: the offset of the first file header among
\* the blocks laid out from offset o; -1 when there is none
RECURSIVE FirstFileHeaderOffset(_, _)
FirstFileHeaderAfter(d, o, h) ==
    IF IsErr(h.err) \/ h.Size < 7 THEN -1
    ELSE IF h.Type = rar3BlockTypeFile THEN o
    ELSE FirstFileHeaderOffset(d, o + h.Size + h.AddSize)

FirstFileHeaderOffset(d, o) == FirstFileHeaderAfter(d, o, readRar3BlockHeader(d, o))

\* the name bytes and the method byte of the file header laid out at offset o:
\* 7 header bytes, 25 fixed bytes with the method at 18 and the name length
\* at 19, then the name
HeaderName(d, o) == Slice(d, o + 32, o + 32 + LE16(d, o + 7 + 19))

HeaderMethod(d, o) == At(d, o + 7 + 18)

\* returned value r is one Format-A VolumeIndex with one FileBlock that
\* carries the name of the file header at offset o of d
OneNamedBlock(r, d, o) ==
    /\ ~IsErr(r.err)
    /\ r.vi.Version = VersionRar3
    /\ Len(r.vi.FileBlocks) = 1
    /\ r.vi.FileBlocks[1].Name = HeaderName(d, o)
    /\ HeaderMethod(d, o) = 48 => r.vi.FileBlocks[1].Stored

\* handle s has indexed a volume of SingleFile3
IndexedSingleFile3(s) == run[s].pc = "done" /\ vol \in SingleFile3

\* C20: indexing a well-formed Format-A volume that holds one file block with
\* its name length at offset 19 of the fixed region returns one VolumeIndex
\* of version RAR3 with exactly one FileBlock, whose Name is the header's
\* name bytes and whose Stored flag is true when the method byte is 0x30.
C20_SingleFileVolumeIndexed ==
    \A s \in BOOLEAN :
        IndexedSingleFile3(s) =>
            OneNamedBlock(run[s].out, vol,
                          FirstFileHeaderOffset(vol, FirstBlockOffset(vol, run[s].sigOffset)))

\* the same for the seekable handle alone
SeekableSingleFileVolumeIndexed ==
    IndexedSingleFile3(TRUE) =>
        OneNamedBlock(run[TRUE].out, vol,
                      FirstFileHeaderOffset(vol, FirstBlockOffset(vol, run[TRUE].sigOffset)))

\* ------------------------------------------- claims about detectSignature

\* the window detectSignature looks at: the first PeekLen bytes of d
Window(d) == IF Len(d) < PeekLen THEN Len(d) ELSE PeekLen

\* sig occurs in d at offset i and lies wholly within the window
OccursAt(d, o, sig) ==
    /\ o + Len(sig) <= Window(d)
    /\ \A k \in 1..Len(sig) : d[o + k] = sig[k]

\* the offsets at which either signature occurs within the window
Occurrences(d) ==
    {o \in 0..Window(d) : OccursAt(d, o, rarrSigV3) \/ OccursAt(d, o, rarrSigV5)}

\* the leftmost of a non-empty set of offsets
Leftmost(S) == CHOOSE o \in S : \A j \in S : o <= j

\* handle s is past detectSignature, which reported signature-not-found
NotFound(s) == run[s].pc = "done" /\ run[s].out.err.site = "detectSignature"

\* C21: detectSignature reports the format and the offset of the leftmost
\* occurrence of either signature that lies wholly within the first 1024
\* bytes of the volume, at any offset up to the end of the window, and
\* reports signature-not-found exactly when there is no such occurrence.
C21_LeftmostSignatureDetected ==
    \A s \in BOOLEAN :
        run[s].pc # "detect" =>
            IF Occurrences(vol) = {} THEN NotFound(s)
            ELSE /\ ~NotFound(s)
                 /\ run[s].sigOffset = Leftmost(Occurrences(vol))
                 /\ run[s].version = IF OccursAt(vol, Leftmost(Occurrences(vol)), rarrSigV5)
                                      THEN VersionRar5 ELSE VersionRar3

\* the same for every volume but the one whose signature ends the window
DetectedUnlessAtWindowEnd ==
    \A s \in BOOLEAN :
        (run[s].pc # "detect" /\ vol # V3SfxEdge) =>
            IF Occurrences(vol) = {} THEN NotFound(s)
            ELSE /\ ~NotFound(s)
                 /\ run[s].sigOffset = Leftmost(Occurrences(vol))
                 /\ run[s].version = IF OccursAt(vol, Leftmost(Occurrences(vol)), rarrSigV5)
                                      THEN VersionRar5 ELSE VersionRar3

\* ------------------------------------------- claims about the varint decoders

\* the bytes a decoder looks at: at most 10
Looked(b) == IF Len(b) < 10 THEN Len(b) ELSE 10

\* every byte the decoder looks at has its continuation bit set
AllContinue(b) == \A k \in 1..Looked(b) : b[k] >= 128

\* io.EOF and io.ErrUnexpectedEOF both report the end of the source
EndError(e) == e.kind \in {"EOF", "ErrUnexpectedEOF"}

\* one of the two errors.New values of the decoders
TooLong(e) == e.kind = "other"

\* what the claim asks of one decoder's result r on the bytes b
ClassifiedAsClaimed(b, r) ==
    /\ Len(b) = 0 => EndError(r.err) /\ r.n = 0
    /\ (Len(b) > 0 /\ AllContinue(b)) => TooLong(r.err) /\ r.n = Looked(b)
    /\ (Len(b) > 0 /\ ~AllContinue(b)) => r.err = NoErr

\* C22: both varint decoders classify failures alike: an end error with zero
\* bytes consumed on an empty source, a too-long error after 10 continuation
\* bytes and when the input ends after 1 to 9 continuation bytes, the byte
\* count being the number of bytes consumed.
C22_DecodersClassifyAlike ==
    /\ dec.stream # <<>> => ClassifiedAsClaimed(dec.input, dec.stream[1])
    /\ dec.slice # <<>> => ClassifiedAsClaimed(dec.input, dec.slice[1])

\* the slice decoder alone classifies as stated
SliceClassifiedAsClaimed ==
    dec.slice # <<>> => ClassifiedAsClaimed(dec.input, dec.slice[1])

\* the stream decoder does so except when its input ends in mid-sequence,
\* where it hands back the reader's io.EOF; its byte count is always right
StreamClassifiedUnlessTruncated ==
    dec.stream # <<>> =>
        /\ (Len(dec.input) = 0 \/ Len(dec.input) >= 10 \/ ~AllContinue(dec.input)) =>
               ClassifiedAsClaimed(dec.input, dec.stream[1])
        /\ (Len(dec.input) \in 1..9 /\ AllContinue(dec.input)) =>
               dec.stream[1].err.kind = "EOF" /\ dec.stream[1].n = Len(dec.input)

\* both decoders ran on an input that ends after one continuation byte
TruncatedDecoded ==
    /\ dec.input = <<172>>
    /\ dec.stream # <<>>
    /\ dec.slice # <<>>

\* ------------------------------------ claims about the worker goroutines

\* the workers inside the call of indexSingle (line 45)
Indexing == {w \in DOMAIN wpc : wpc[w] = "call"}

\* the worker count in force: the argument, or the number of CPUs
WorkerBound == IF workers > 0 THEN workers ELSE numCPU

\* C23: during IndexVolumesParallel never more than w volumes are being
\* indexed at the same time when the worker count w is positive, and never
\* more than the number of CPUs when it is not, however many volumes there are.
C23_AtMostWorkersIndexing ==
    /\ Cardinality(Indexing) <= WorkerBound
    /\ Cardinality({wjob[w] : w \in Indexing}) = Cardinality(Indexing)

\* one worker, two volumes: the second is being indexed after the first
C23_Witness ==
    /\ op = "IndexVolumesParallel"
    /\ workers = 1
    /\ Len(volPaths) = 2
    /\ \E w \in Indexing : wjob[w] = 1
    /\ Len(finished) = 1

\* no worker count given: as many indexing at once as there are CPUs
IndexingOnEveryCPU ==
    /\ workers = 0
    /\ numCPU = 2
    /\ Cardinality(Indexing) = 2

\* ------------------------------------------- claims about IndexVolumes

\* the positions of volPaths whose volume does not index
Failing == {k \in 1..Len(volPaths) : IsErr(indexed[volPaths[k]].err)}

\* the lowest of them
FirstFailing == CHOOSE k \in Failing : \A j \in Failing : k <= j

\* the volumes are opened one after the other from the first on
OpenedInInputOrder ==
    /\ finished = [k \in 1..Len(finished) |-> k - 1]
    /\ opened = {k - 1 : k \in 1..Len(finished)}
    /\ \A k \in 1..Len(res) : res[k] = indexed[volPaths[k]].vi

\* what IndexVolumes has returned, and what it opened for it
SeqReturned ==
    IF Failing = {}
    THEN /\ ret = Result([k \in 1..Len(volPaths) |-> indexed[volPaths[k]].vi], NoErr)
         /\ opened = {k - 1 : k \in 1..Len(volPaths)}
    ELSE /\ ret = Result(<<>>, Wrap(volPaths[FirstFailing], indexed[volPaths[FirstFailing]].err))
         /\ opened = {k - 1 : k \in 1..FirstFailing}

\* C24: IndexVolumes takes the volumes strictly in input order and stops at
\* the first failure: it returns the error of the lowest failing volume,
\* wrapped with its path, and opens no volume after it.
C24_SequentialStopsAtFirstFailure ==
    /\ [](op = "IndexVolumes" => OpenedInInputOrder /\ (pc = "done" => SeqReturned))
    /\ [][op = "IndexVolumes" =>
            /\ opened' \in {opened, opened \cup {Cardinality(opened)}}
            /\ (pc = "done" \/ IsErr(ret.err)) => opened' = opened]_vars

\* two volumes that both fail: the call ended with the error of the first
\* and never opened the second
C24_Witness ==
    /\ op = "IndexVolumes"
    /\ pc = "done"
    /\ Failing = {1, 2}
    /\ ret.err = Wrap(volPaths[1], indexed[volPaths[1]].err)
    /\ opened = {0}

\* a failure of the second volume, after the first was indexed
SecondVolumeFailed ==
    /\ op = "IndexVolumes"
    /\ pc = "done"
    /\ Failing = {2}
    /\ ret.err.path = volPaths[2]
    /\ opened = {0, 1}

\* --------------------------------------------- claims about the dispatcher

\* C25: once an error is recorded in firstErr the dispatcher of
\* IndexVolumesParallel sends no further job index: every index a worker
\* receives was sent before the error was recorded.
C25_NoSendAfterError ==
    [][firstErr # NoErr => i' = i]_vars

\* the dispatcher tests firstErr before each send (line 61), so only the send
\* whose test came before the Store can follow it
AtMostOneLateSend ==
    Cardinality(lateRecv) <= 1

\* a send whose test saw no error is pending while the error is recorded
SendPendingAfterError ==
    /\ pc = "send"
    /\ firstErr # NoErr
    /\ \E w \in DOMAIN wpc : wpc[w] = "recv"

\* the workers that hold a job index: received and not yet done with
Holding == {w \in DOMAIN wpc : wpc[w] \in {"check", "call", "failed", "store"}}

\* worker w receives a job index in this step
Receives(w) == wpc[w] = "recv" /\ wpc'[w] = "check"

\* C26: in IndexVolumesParallel every job index is received by at most one
\* worker and at most once, so each position of res is written at most once
\* and no two workers write the same position or index the same volume.
C26_JobsReceivedOnce ==
    /\ [](\A v, w \in Holding : v # w => wjob[v] # wjob[w])
    /\ [](\A w \in Holding : wjob[w] < i)
    /\ [](\A a, b \in DOMAIN finished : a # b => finished[a] # finished[b])
    /\ [][\A w \in DOMAIN wpc : Receives(w) =>
            /\ wjob'[w] = i
            /\ i' = i + 1
            /\ \A v \in DOMAIN wpc \ {w} : ~Receives(v) /\ wjob'[v] = wjob[v]]_vars
    /\ [][op # "IndexVolumes" =>
            \A k \in DOMAIN res : res'[k] # res[k] =>
                /\ res[k] = NilVI
                /\ \E w \in DOMAIN wpc : wpc[w] = "call" /\ wjob[w] + 1 = k
                /\ \A j \in DOMAIN res \ {k} : res'[j] = res[j]]_vars

\* two workers each indexing its own volume at the same time
C26_Witness ==
    /\ Cardinality(Indexing) = 2
    /\ {wjob[w] : w \in Indexing} = {0, 1}

\* ... and both positions of res written
BothPositionsWritten ==
    /\ op = "IndexVolumesParallel"
    /\ pc = "done"
    /\ Len(wpc) = 2
    /\ Len(res) = 2
    /\ \A k \in DOMAIN res : res[k] # NilVI

\* ------------------------------------------ claims about the legacy scanner

\* the legacy scanner of run r ran and its early check found a main header
\* (type 0x73, size >= 7) with flag 0x0080 or 0x0200
LegacyFoundEncryptedMain(r) ==
    /\ r.legacyRan
    /\ r.legacy.err = Err("ErrPasswordProtected", "scanLegacy")

\* indexing of run r has failed with ErrPasswordProtected and no FileBlock
FailedPasswordProtected(r) ==
    /\ r.pc = "done"
    /\ IsPasswordProtected(r.out.err)
    /\ r.out.vi = NilVI

\* C27: whenever the legacy scanner runs and its bounded early check finds a
\* main header with flag 0x0080 or 0x0200, indexing the volume fails with an
\* error matching ErrPasswordProtected and records no FileBlock, whether the
\* strict parser had failed or had found no file block.
C27_LegacyEncryptedMainFails ==
    \A s \in BOOLEAN :
        LegacyFoundEncryptedMain(run[s]) => FailedPasswordProtected(run[s])

\* it does where the strict parser had found no file block; where the strict
\* parser had failed, indexing fails with the strict parser's error
LegacyEncryptedMainAfterNoBlock ==
    \A s \in BOOLEAN :
        LegacyFoundEncryptedMain(run[s]) =>
            /\ run[s].pc = "done"
            /\ run[s].out.vi = NilVI
            /\ run[s].out.err = (IF IsErr(run[s].strict3.err) THEN run[s].strict3.err
                                 ELSE run[s].legacy.err)

\* the early check fired after the strict parser had found no file block
EncryptedMainAfterNoBlock ==
    \E s \in BOOLEAN :
        /\ LegacyFoundEncryptedMain(run[s])
        /\ ~IsErr(run[s].strict3.err)
        /\ FailedPasswordProtected(run[s])

\* the early check fired after the strict parser had failed
EncryptedMainAfterFailure ==
    \E s \in BOOLEAN :
        /\ LegacyFoundEncryptedMain(run[s])
        /\ IsErr(run[s].strict3.err)
        /\ run[s].pc = "done"

\* --------------------------------------- claims about the Format-B parser

\* indexing through handle s has failed: no VolumeIndex, no legacy attempt
FailedWithoutFallback(s) ==
    /\ IsErr(run[s].out.err)
    /\ run[s].out.vi = NilVI
    /\ ~run[s].legacyRan

\* C28: a structural error in a Format-B volume (header length above 2 MiB
\* whatever the file size, extra-area size or name length beyond the header,
\* name length zero, mtime or CRC32 flagged with fewer than 4 bytes left, a
\* malformed varint) makes indexing fail with no VolumeIndex, also after file
\* blocks that parsed, and the legacy scanner is not attempted.
C28_StructuralErrorFails ==
    \A s \in BOOLEAN : \A x \in V5Structural :
        vol = x.vol =>
            /\ run[s].pc # "legacy"
            /\ run[s].pc = "done" => FailedWithoutFallback(s)

\* through a seekable handle it does, with the error of the place that
\* rejects the block, the file block before it already parsed
SeekableStructuralErrorFails ==
    \A x \in V5Structural :
        vol = x.vol =>
            /\ run[TRUE].pc # "legacy"
            /\ run[TRUE].pc = "done" =>
                  /\ FailedWithoutFallback(TRUE)
                  /\ run[TRUE].out.err.site = x.site
                  /\ Len(run[TRUE].strict5.FileBlocks) = (IF x.afterFile THEN 1 ELSE 0)

\* a volume rejected for its second block after its file block was parsed
RejectedAfterFileBlock ==
    /\ \E x \in V5Structural : vol = x.vol /\ x.afterFile
    /\ run[TRUE].pc = "done"
    /\ FailedWithoutFallback(TRUE)
    /\ Len(run[TRUE].strict5.FileBlocks) = 1

\* a handle that cannot seek has skipped the block and indexed the volume
StructuralErrorSkipped ==
    /\ \E x \in V5Structural : vol = x.vol
    /\ run[FALSE].pc = "done"
    /\ ~IsErr(run[FALSE].out.err)

\* ------------------------- IndexVolumesParallel against IndexVolumes

\* what IndexVolumes returns on fs and volPaths
SeqOutcome ==
    IF Failing = {}
    THEN Result([k \in 1..Len(volPaths) |-> indexed[volPaths[k]].vi], NoErr)
    ELSE Result(<<>>, Wrap(volPaths[FirstFailing], indexed[volPaths[FirstFailing]].err))

\* C29: on every list of volumes and with every worker count,
\* IndexVolumesParallel returns an error exactly when IndexVolumes does on
\* the same list, and when neither fails both return the same sequence of
\* VolumeIndex values, the empty list included.
C29_ParallelAgreesWithSequential ==
    /\ (op = "IndexVolumes" /\ pc = "done") => ret = SeqOutcome
    /\ ParReturned =>
          /\ IsErr(idx.err) <=> IsErr(SeqOutcome.err)
          /\ ~IsErr(idx.err) => idx.value = SeqOutcome.value

\* both volumes fail and the parallel call returned the error of the second,
\* where IndexVolumes returns that of the first
C29_Witness ==
    /\ op = "IndexVolumesParallel"
    /\ pc = "done"
    /\ Failing = {1, 2}
    /\ IsErr(ret.err)
    /\ ret.err # SeqOutcome.err

\* two volumes indexed by two workers, the same result as in sequence
SameTwoVolumes ==
    /\ op = "IndexVolumesParallel"
    /\ pc = "done"
    /\ workers = 2
    /\ Len(volPaths) = 2
    /\ ~IsErr(ret.err)
    /\ ret = SeqOutcome

\* no volume: both return nil, nil
SameOnEmptyList ==
    /\ op = "IndexVolumesParallel"
    /\ pc = "done"
    /\ volPaths = <<>>
    /\ ret = SeqOutcome

\* ------------------------------------- claims about the volume-local size

\* run r has returned a VolumeIndex whose blocks come from the Format-B parser
\* or from the legacy scanner
IndexedByRar5OrLegacy(r) ==
    /\ r.pc = "done"
    /\ ~IsErr(r.out.err)
    /\ (r.version = VersionRar5 \/ LegacyGaveBlock(r))

\* the declared data-area sizes of the blocks of fbs that carry name, summed
RECURSIVE SumDeclaredSize(_, _)
SumDeclaredSize(fbs, name) ==
    IF fbs = <<>> THEN 0
    ELSE (IF Head(fbs).Name = name THEN Head(fbs).PackedSize ELSE 0) + SumDeclaredSize(Tail(fbs), name)

\* AggregateFiles and BuildVolumeFiles on the VolumeIndex vi alone report the
\* declared data-area size of every block
DeclaredSizeReported(vi) ==
    /\ \A k \in DOMAIN vi.FileBlocks : vi.FileBlocks[k].VolumeDataSize = vi.FileBlocks[k].PackedSize
    /\ \A k \in DOMAIN vi.FileBlocks :
          BuildVolumeFiles(<<vi>>)[1].Files[k].PackedSize = vi.FileBlocks[k].PackedSize
    /\ \A k \in DOMAIN AggregateFiles(<<vi>>) :
          AggregateFiles(<<vi>>)[k].TotalPackedSize
              = SumDeclaredSize(vi.FileBlocks, AggregateFiles(<<vi>>)[k].Name)

\* C30: for every FileBlock from the Format-B parser or the legacy scanner the
\* volume-local data size that AggregateFiles and BuildVolumeFiles use is the
\* block's packed size, so that TotalPackedSize of a file is the sum of the
\* data-area sizes of its blocks.
C30_VolumeDataSizeIsPackedSize ==
    \A s \in BOOLEAN :
        IndexedByRar5OrLegacy(run[s]) => DeclaredSizeReported(run[s].out.vi)

\* what the two parsers give instead: a volume-local size of zero, whatever
\* the data-area size of the block
VolumeDataSizeLeftZero ==
    \A s \in BOOLEAN :
        IndexedByRar5OrLegacy(run[s]) =>
            /\ \A k \in DOMAIN run[s].out.vi.FileBlocks : run[s].out.vi.FileBlocks[k].VolumeDataSize = 0
            /\ \A k \in DOMAIN AggregateFiles(<<run[s].out.vi>>) :
                  AggregateFiles(<<run[s].out.vi>>)[k].TotalPackedSize = 0

\* a Format-B volume indexed with a block that has a data area
Rar5BlockWithData ==
    /\ IndexedByRar5OrLegacy(run[TRUE])
    /\ run[TRUE].version = VersionRar5
    /\ \E k \in DOMAIN run[TRUE].out.vi.FileBlocks : run[TRUE].out.vi.FileBlocks[k].PackedSize > 0

\* a volume indexed by the legacy scanner with such a block
LegacyBlockWithData ==
    /\ LegacyGaveBlock(run[TRUE])
    /\ run[TRUE].pc = "done"
    /\ \E k \in DOMAIN run[TRUE].out.vi.FileBlocks : run[TRUE].out.vi.FileBlocks[k].PackedSize > 0

=============================================================================
